---------------------------- MODULE Spec2Model ----------------------------
(***************************************************************************)
(* The weighted fair queuing scheduler of sample/weighted_fair_queuing:    *)
(* WFQScheduler with its class registry (queues), the container/heap       *)
(* ordered VirtualTimeHeap, the float64 virtual clock, the buffered        *)
(* wake-up channel (processor), the done channel and the processLoop       *)
(* goroutine.  Enqueue, AddQueue, GetStats and processNext each run under  *)
(* wfq.mu from their first to their last statement, so each is one step.   *)
(***************************************************************************)
EXTENDS Integers, Sequences, FiniteSets, TLC

(***************************************************************************)
(* Workloads: the calls the callers make.  AddQueue validates neither the  *)
(* weight nor a duplicate's weight and Enqueue does not validate the size, *)
(* so a weight of 0 and a size of 0 are inputs like any other.  A workload  *)
(* names the AddQueue calls (register), the Enqueue calls (enqueue), how    *)
(* many Enqueue calls are accepted in all (limit) and per class (quota),    *)
(* and whether the history of events is kept (log).  It may also say that  *)
(* the order of the registrations is kept in the history (order) and which *)
(* delays time.Since measures at a dispatch (delays; 0 when not given).    *)
(***************************************************************************)
\* Number of Enqueue calls accepted in one behaviour of the general
\* workload.
MaxRequests == 3

\* The classes of main(), and a class of weight 0.
Classes == { <<"gold", 4>>, <<"silver", 2>>, <<"bronze", 1>> }
ZeroClass == <<"zero", 0>>

IDs(register) == { p[1] : p \in register }

\* What workload W says about name, or the default when it says nothing.
Option(W, name, default) == IF name \in DOMAIN W THEN W[name] ELSE default

\* Every registered class and one id that is never registered, with sizes
\* 0, 1 and 2.
General ==
    [ register |-> Classes \cup {ZeroClass},
      enqueue  |-> (IDs(Classes \cup {ZeroClass}) \cup {"ghost"}) \X {0, 1, 2},
      limit    |-> MaxRequests,
      quota    |-> [ c \in IDs(Classes \cup {ZeroClass}) |-> MaxRequests ],
      log      |-> FALSE ]

\* Number of Enqueue calls accepted in one behaviour of the deep workload.
MaxDeep == 4

\* The same classes with sizes 0 and 1: one request more, so that all four
\* classes can be in the heap at once.
Deep ==
    [ register |-> Classes \cup {ZeroClass},
      enqueue  |-> IDs(Classes \cup {ZeroClass}) \X {0, 1},
      limit    |-> MaxDeep,
      quota    |-> [ c \in IDs(Classes \cup {ZeroClass}) |-> MaxDeep ],
      log      |-> FALSE ]

\* Number of Enqueue calls accepted in one behaviour of the traced
\* workload.
MaxTraced == 3

\* The general workload without the unregistered id, and the history of
\* calls and dispatches kept.
Traced ==
    [ register |-> Classes \cup {ZeroClass},
      enqueue  |-> IDs(Classes \cup {ZeroClass}) \X {0, 1, 2},
      limit    |-> MaxTraced,
      quota    |-> [ c \in IDs(Classes \cup {ZeroClass}) |-> MaxTraced ],
      log      |-> TRUE ]

\* Number of Enqueue calls accepted in one behaviour of the skewed workload.
MaxSkewed == 6

\* Two of the classes with requests of one size, and the class of weight 0;
\* each class has its share of the requests, as in the tests of main().
Skewed ==
    [ register |-> { <<"gold", 4>>, <<"bronze", 1>>, ZeroClass },
      enqueue  |-> { <<"gold", 2>>, <<"bronze", 2>>, <<"zero", 0>> },
      limit    |-> MaxSkewed,
      quota    |-> [ zero |-> 1, gold |-> 2, bronze |-> 3 ],
      log      |-> TRUE ]

\* Number of Enqueue calls accepted in one behaviour of the valid workload.
MaxValid == 4

\* The classes of main() with positive sizes only.
Valid ==
    [ register |-> Classes,
      enqueue  |-> IDs(Classes) \X {1, 2},
      limit    |-> MaxValid,
      quota    |-> [ c \in IDs(Classes) |-> MaxValid ],
      log      |-> TRUE ]

\* Number of Enqueue calls accepted in one behaviour of the priority
\* workload.
MaxPriority == 4

\* Test 4 of main(): class high of weight 10 with requests of size 100 and
\* class low of weight 1 with requests of size 10000.
Priority ==
    [ register |-> { <<"high", 10>>, <<"low", 1>> },
      enqueue  |-> { <<"low", 10000>>, <<"high", 100>> },
      limit    |-> MaxPriority,
      quota    |-> [ c \in {"high", "low"} |-> MaxPriority ],
      log      |-> TRUE ]

\* Number of Enqueue calls accepted in one behaviour of the overtaking
\* workload.
MaxOvertaking == 4

\* Requests of four costs (size/weight): bronze 1, silver 1/2 and 1, gold
\* 3/4, and the class of weight 0 with a request of size 0.
Overtaking ==
    [ register |-> Classes \cup {ZeroClass},
      enqueue  |-> { <<"bronze", 1>>, <<"silver", 1>>, <<"silver", 2>>,
                     <<"gold", 3>>, <<"zero", 0>> },
      limit    |-> MaxOvertaking,
      quota    |-> [ c \in IDs(Classes \cup {ZeroClass}) |-> MaxOvertaking ],
      log      |-> TRUE ]

\* Number of Enqueue calls accepted in one behaviour of the tied workload.
MaxTied == 3

\* Two classes whose requests all have the same size/weight, 4/4 and 1/1;
\* the order of the registrations is kept in the history (order).
Tied ==
    [ register |-> { <<"gold", 4>>, <<"bronze", 1>> },
      enqueue  |-> { <<"gold", 4>>, <<"bronze", 1>> },
      limit    |-> MaxTied,
      quota    |-> [ c \in {"gold", "bronze"} |-> MaxTied ],
      log      |-> FALSE,
      order    |-> TRUE ]

\* Number of Enqueue calls accepted in one behaviour of the stopping
\* workload.
MaxStopping == 3

\* Two classes with requests of two sizes, for the behaviours with Stop.
Stopping ==
    [ register |-> { <<"gold", 4>>, <<"bronze", 1>> },
      enqueue  |-> { <<"gold", 1>>, <<"gold", 2>>, <<"bronze", 1>> },
      limit    |-> MaxStopping,
      quota    |-> [ c \in {"gold", "bronze"} |-> MaxStopping ],
      log      |-> FALSE ]

\* Number of Enqueue calls accepted in one behaviour of the flood workload:
\* one more than the wake-up channel holds.
MaxFlood == 101

\* One class and one size, with more requests than the wake-up channel has
\* room for.
Flood ==
    [ register |-> { <<"gold", 4>> },
      enqueue  |-> { <<"gold", 1>> },
      limit    |-> MaxFlood,
      quota    |-> [ c \in {"gold"} |-> MaxFlood ],
      log      |-> FALSE ]

\* Capacity of a request's Done channel: make(chan bool, 1).
DoneCap == 1

\* Capacity of the wake-up channel: make(chan *Request, 100).
ProcessorCap == 100

(***************************************************************************)
(* float64.  The weights offered are powers of two, or 10 with sizes that  *)
(* are multiples of 10, so size/weight and the sums of such quotients are  *)
(* exact in binary floating point; a finite value x is kept as the integer *)
(* x * Scale.  Division by a zero weight gives +Inf (size > 0) or NaN      *)
(* (size = 0), as IEEE 754 and Go define.                                  *)
(***************************************************************************)
Weights == { p[2] : p \in Classes \cup Priority.register }

\* The least common multiple of the weights.
Scale == CHOOSE n \in 1..100 :
            /\ \A w \in Weights : n % w = 0
            /\ \A m \in 1..(n - 1) : \E w \in Weights : m % w # 0

Fin(n) == [k |-> "fin", v |-> n]
PosInf == [k |-> "inf", v |-> 0]
NaN    == [k |-> "nan", v |-> 0]

\* float64(size) / weight, for size >= 0 and weight >= 0.
FDiv(size, weight) ==
    IF weight = 0
    THEN (IF size = 0 THEN NaN ELSE PosInf)
    ELSE Fin((size * Scale) \div weight)

\* a + b
FAdd(a, b) ==
    IF a.k = "nan" \/ b.k = "nan" THEN NaN
    ELSE IF a.k = "inf" \/ b.k = "inf" THEN PosInf
    ELSE Fin(a.v + b.v)

\* a < b: false as soon as one side is NaN.
FLess(a, b) ==
    /\ a.k = "fin"
    /\ \/ b.k = "inf"
       \/ b.k = "fin" /\ a.v < b.v

\* a >= b: false as soon as one side is NaN.
FGeq(a, b) ==
    \/ a.k = "inf" /\ b.k # "nan"
    \/ a.k = "fin" /\ b.k = "fin" /\ a.v >= b.v

\* math.Max(a, b): +Inf wins over NaN, NaN wins over every finite value.
FMax(a, b) ==
    IF a.k = "inf" \/ b.k = "inf" THEN PosInf
    ELSE IF a.k = "nan" \/ b.k = "nan" THEN NaN
    ELSE IF a.v >= b.v THEN a ELSE b

(***************************************************************************)
(* State.                                                                  *)
(***************************************************************************)
VARIABLES
    workload,     \* the calls this behaviour's callers make (never changes)
    queues,       \* wfq.queues: class id -> Queue, for the registered ids
    heap,         \* *wfq.heap: the slice of the VirtualTimeHeap (class ids)
    virtualTime,  \* wfq.virtualTime
    processor,    \* number of wake-ups buffered in wfq.processor
    done,         \* wfq.done is closed
    loop,         \* processLoop: "running" or "exited"
    panic,        \* "none", or the message of the panic that ended the process
    accepted,     \* history: class id -> number of Enqueue calls accepted;
                  \* the n-th accepted request overall has id n
    completion,   \* request id -> number of times processNext reached
                  \* "request.Done <- true; close(request.Done)" for it
    events,       \* history, kept when workload.log: the accepted Enqueue
                  \* calls and the dispatches, in the order they happened
    mu,           \* wfq.mu: "free", or the goroutine that holds it
    pc,           \* goroutine -> where it is in the call it makes; Idle
                  \* when the whole call is taken as one step
    cfg,          \* package ratelimit: the limiter's Config and the calls
                  \* its callers make (never changes)
    clock,        \* config.Clock.Now(), in ticks
    limiter,      \* the fields of the FixedWindow, SlidingWindow or
                  \* TokenBucket
    waiters,      \* goroutine in WaitN -> where it is, its n and its ctx
    hist,         \* history: the admissions and the Reset calls, in order
    mwClock,      \* Middleware: time.Now(), in ticks
    mwLimiters,   \* m.limiters: key -> the *limiterEntry the map holds
    mwEntries,    \* the limiterEntry objects made so far, in the order they
                  \* were made: the limiter (the number of the
                  \* LimiterFactory call that made it) and lastAccess
    mwTicker,     \* the time of the cleanup goroutine's next tick
    mwPc,         \* goroutine serving requests -> where it is in getLimiter
    mwHist,       \* history: the getLimiter calls and returns and the
                  \* LimiterFactory calls, in order
    cbClock,      \* CircuitBreakerRateLimiter: time.Now(), in ticks
    cb,           \* the fields of the CircuitBreakerRateLimiter that its
                  \* decisions read
    cbPc,         \* goroutine -> where it is in Allow
    cbTrace       \* history: the transitions into StateHalfOpen so far
                  \* (period) and the Allow calls that allowHalfOpen
                  \* granted in the current one (granted)

\* The scheduler's fields and the histories.
data == << workload, queues, heap, virtualTime, processor, done, loop,
           panic, accepted, completion, events >>

\* The state of package ratelimit.
limiters == << cfg, clock, limiter, waiters, hist >>

\* The state of the Middleware.
middleware == << mwClock, mwLimiters, mwEntries, mwTicker, mwPc, mwHist >>

\* The state of the circuit breaker.
breaker == << cbClock, cb, cbPc, cbTrace >>

\* The state of the other services.
services == << middleware, breaker >>

vars == << data, mu, pc, limiters, services >>

\* The goroutines: processLoop, started by NewWFQScheduler, and the callers.
Callers == { "caller1", "caller2" }
Threads == Callers \cup { "processLoop" }

\* A goroutine that is in no call.
Idle == [ at |-> "idle" ]

\* Number of requests accepted so far.
Issued == Len(completion)

Registered == DOMAIN queues

\* Mutant: a new class starts with its active flag set.
NewQueueActive(weight) ==
    [ weight        |-> weight,
      virtualFinish |-> Fin(0),
      requests      |-> << >>,
      active        |-> TRUE,
      processed     |-> 0,
      totalDelay    |-> 0 ]

\* &Queue{id, weight, requests: make([]*Request, 0)}; the other fields are
\* zero values.
NewQueue(weight) ==
    [ weight        |-> weight,
      virtualFinish |-> Fin(0),
      requests      |-> << >>,
      active        |-> FALSE,
      processed     |-> 0,
      totalDelay    |-> 0 ]

\* &Request{ID, QueueID, Size, Done: make(chan bool, 1)}
NewRequest(id, queueID, size) == [ id |-> id, queueID |-> queueID, size |-> size ]

\* No rate limiter is made.
NoLimiters ==
    /\ cfg = [ kind |-> "none" ]
    /\ clock = 0
    /\ limiter = << >>
    /\ waiters = << >>
    /\ hist = << >>

\* No Middleware is made.
NoMiddleware ==
    /\ mwClock = 0
    /\ mwLimiters = << >>
    /\ mwEntries = << >>
    /\ mwTicker = 0
    /\ mwPc = << >>
    /\ mwHist = << >>

\* No circuit breaker is made.
NoBreaker ==
    /\ cbClock = 0
    /\ cb = << >>
    /\ cbPc = << >>
    /\ cbTrace = << >>

\* None of the other services is made.
NoServices == NoMiddleware /\ NoBreaker

\* The state NewWFQScheduler returns, with the callers' workload W.
InitOf(W) ==
    /\ workload = W
    /\ events = << >>
    /\ queues = << >>
    /\ heap = << >>
    /\ virtualTime = Fin(0)
    /\ processor = 0
    /\ done = FALSE
    /\ loop = "running"
    /\ panic = "none"
    /\ accepted = << >>
    /\ completion = << >>
    /\ mu = "free"
    /\ pc = [ t \in Threads |-> Idle ]

\* A run of the scheduler: the state NewWFQScheduler returns, and no rate
\* limiter.
SchedulerOf(W) == InitOf(W) /\ NoLimiters /\ NoServices


(***************************************************************************)
(* VirtualTimeHeap and container/heap.  Indices are Go's (from 0); the     *)
(* slice h is a sequence, so h[i + 1] is Go's h[i].                        *)
(***************************************************************************)
\* Mutant: the comparison is reversed.
LessReversed(qs, h, i, j) ==
    FLess(qs[h[j + 1]].virtualFinish, qs[h[i + 1]].virtualFinish)

\* h[i].virtualFinish < h[j].virtualFinish
Less(qs, h, i, j) ==
    FLess(qs[h[i + 1]].virtualFinish, qs[h[j + 1]].virtualFinish)

\* h[i], h[j] = h[j], h[i]
Swap(h, i, j) == [h EXCEPT ![i + 1] = h[j + 1], ![j + 1] = h[i + 1]]

\* container/heap.up: j's parent is (j - 1) / 2, which Go truncates to 0
\* for j = 0.
RECURSIVE up(_, _, _)
up(qs, h, j) ==
    LET i == IF j = 0 THEN 0 ELSE (j - 1) \div 2
    IN  IF i = j \/ ~Less(qs, h, j, i)
        THEN h
        ELSE up(qs, Swap(h, i, j), i)

\* container/heap.down
RECURSIVE down(_, _, _, _)
down(qs, h, i, n) ==
    LET j1 == 2 * i + 1
        j2 == j1 + 1
        j  == IF j2 < n /\ Less(qs, h, j2, j1) THEN j2 ELSE j1
    IN  IF j1 >= n THEN h
        ELSE IF ~Less(qs, h, j, i) THEN h
        ELSE down(qs, Swap(h, i, j), j, n)

\* heap.Push(wfq.heap, queue): h.Push(x), then up(h, h.Len() - 1)
HeapPush(qs, h, x) == up(qs, Append(h, x), Len(h))

\* heap.Pop(wfq.heap): n := h.Len() - 1; h.Swap(0, n); down(h, 0, n);
\* h.Pop() then takes the last element off.
HeapPop(qs, h) ==
    LET n  == Len(h) - 1
        h2 == down(qs, Swap(h, 0, n), 0, n)
    IN  [ item |-> h2[n + 1], rest |-> SubSeq(h2, 1, n) ]

\* The classes in the heap.
Members(h) == { h[i] : i \in 1..Len(h) }

\* The history with event e added.
Logged(e) == IF workload.log THEN Append(events, e) ELSE events

(***************************************************************************)
(* AddQueue                                                                *)
(***************************************************************************)
\* The history with the registration e added, when the workload keeps the
\* order of the registrations.
Noted(e) ==
    IF Option(workload, "order", FALSE) THEN Append(events, e) ELSE events

AddQueue(id, weight) ==
    /\ panic = "none"
    /\ IF id \in Registered
       THEN UNCHANGED << queues, accepted, events >>
       ELSE /\ queues' = [ c \in Registered \cup {id} |->
                            IF c = id THEN NewQueue(weight) ELSE queues[c] ]
            /\ accepted' = [ c \in Registered \cup {id} |->
                              IF c = id THEN 0 ELSE accepted[c] ]
            /\ events' = Noted([ op      |-> "register",
                                 id      |-> 0,
                                 queueID |-> id,
                                 size    |-> 0,
                                 active  |-> Members(heap) ])
    /\ UNCHANGED << workload, heap, virtualTime, processor, done, loop,
                    panic, completion >>

(***************************************************************************)
(* Enqueue                                                                 *)
(***************************************************************************)
\* Mutant: the class is pushed on every Enqueue.
AlwaysActivate(queue) == TRUE

\* Mutant: the test of the active flag is inverted.
ActivateWhenActive(queue) == queue.active

\* if !queue.active
NeedsActivation(queue) == ~queue.active

\* Mutant: the finish time restarts from the class's previous finish time.
ActivationFromStale(queue, vt, size) ==
    FAdd(queue.virtualFinish, FDiv(size, queue.weight))

\* Mutant: the finish time of a class made active ignores the clock.
ActivationFromZero(queue, vt, size) == FDiv(size, queue.weight)

\* wfq.virtualTime + float64(size)/queue.weight
ActivationFinish(queue, vt, size) == FAdd(vt, FDiv(size, queue.weight))

\* select { case wfq.processor <- nil: default: }
Poked(n) == IF n < ProcessorCap THEN n + 1 ELSE n

\* Mutant: a plain send, which waits while the channel is full.
PokeBlocking == processor < ProcessorCap /\ processor' = processor + 1

\* The select with its default case never waits.
Poke == processor' = Poked(processor)

Enqueue(queueID, size) ==
    /\ panic = "none"
    /\ IF queueID \notin Registered
       THEN UNCHANGED data
       ELSE
         /\ Issued < workload.limit
         /\ accepted[queueID] < workload.quota[queueID]
         /\ LET queue    == queues[queueID]
                appended == [queue EXCEPT
                               !.requests =
                                   Append(@, NewRequest(Issued + 1, queueID, size))]
                activate == NeedsActivation(queue)
                after    == IF activate
                            THEN [appended EXCEPT
                                    !.active = TRUE,
                                    !.virtualFinish =
                                        ActivationFinish(queue, virtualTime, size)]
                            ELSE appended
                qs       == [queues EXCEPT ![queueID] = after]
            IN  /\ queues' = qs
                /\ heap' = IF activate THEN HeapPush(qs, heap, queueID) ELSE heap
                /\ events' = Logged([ op      |-> "enqueue",
                                      id      |-> Issued + 1,
                                      queueID |-> queueID,
                                      size    |-> size,
                                      active  |-> Members(heap) ])
         /\ Poke
         /\ accepted' = [accepted EXCEPT ![queueID] = @ + 1]
         /\ completion' = Append(completion, 0)
         /\ UNCHANGED << workload, virtualTime, done, loop, panic >>

(***************************************************************************)
(* processNext                                                             *)
(***************************************************************************)
\* Mutant: the request appended last is the one served.
Back(requests) == requests[Len(requests)]

\* request := queue.requests[0]
Front(requests) == requests[1]

\* Mutant: every pending request of the class is taken at once.
RestDrained(requests) == << >>

\* Mutant: the head request stays in the queue.
RestKept(requests) == requests

\* queue.requests = queue.requests[1:]
Rest(requests) == Tail(requests)

\* Mutant: the update of the counter is lost.
AddInt64Lost(n, delta) == n

\* atomic.AddInt64(&queue.processed, 1)
AddInt64(n, delta) == n + delta

\* Mutant: the clock stays where it was.
AdvanceKept(vt, finish) == vt

\* math.Max(wfq.virtualTime, queue.virtualFinish)
Advance(vt, finish) == FMax(vt, finish)

\* Mutant: the class is put back with the clock's value as its finish time.
NextFinishStuck(queue, vt, size) == vt

\* wfq.virtualTime + float64(nextRequest.Size)/queue.weight
NextFinish(queue, vt, size) == FAdd(vt, FDiv(size, queue.weight))

\* Mutant: the Done channel has no buffer, so a send waits for a receiver.
SendReadyUnbuffered(sends, cap) == sends > 0

\* request.Done <- true goes through without a receiver when the buffer has
\* room; on a channel that was sent to and closed before, it panics rather
\* than wait.
SendReady(sends, cap) == sends > 0 \/ sends < cap

\* Mutant: the flag of a class whose queue has emptied stays set.
InactiveLost(queue) == queue

\* queue.active = false
Inactive(queue) == [queue EXCEPT !.active = FALSE]

processNext ==
    IF Len(heap) = 0
    THEN UNCHANGED << queues, heap, virtualTime, panic, completion, events >>
    ELSE
      LET popped == HeapPop(queues, heap)
          queue  == queues[popped.item]
      IN  IF Len(queue.requests) = 0
          THEN /\ queues' = [queues EXCEPT ![popped.item] = Inactive(queue)]
               /\ heap' = popped.rest
               /\ UNCHANGED << virtualTime, panic, completion, events >>
          ELSE
            \* delay := time.Since(request.Timestamp)
            \E delay \in Option(workload, "delays", {0}) :
            LET request == Front(queue.requests)
                rest    == Rest(queue.requests)
                vt      == Advance(virtualTime, queue.virtualFinish)
                served  == [queue EXCEPT !.requests = rest,
                                         !.totalDelay = AddInt64(@, delay),
                                         !.processed = AddInt64(@, 1)]
                after   == IF Len(rest) > 0
                           THEN [served EXCEPT
                                   !.virtualFinish =
                                       NextFinish(queue, vt, rest[1].size)]
                           ELSE Inactive(served)
                qs      == [queues EXCEPT ![popped.item] = after]
            IN  /\ SendReady(completion[request.id], DoneCap)
                /\ queues' = qs
                /\ virtualTime' = vt
                /\ heap' = IF Len(rest) > 0
                           THEN HeapPush(qs, popped.rest, popped.item)
                           ELSE popped.rest
                \* request.Done <- true; close(request.Done): a second
                \* send finds the channel closed.
                /\ completion' = [completion EXCEPT ![request.id] = @ + 1]
                /\ panic' = IF completion[request.id] > 0
                            THEN "send on closed channel"
                            ELSE panic
                /\ events' = Logged([ op      |-> "dispatch",
                                      id      |-> request.id,
                                      queueID |-> request.queueID,
                                      size    |-> request.size,
                                      active  |-> Members(heap) ])

(***************************************************************************)
(* processLoop, Stop, GetStats                                             *)
(***************************************************************************)
\* case <-ticker.C: wfq.processNext()
Tick ==
    /\ panic = "none"
    /\ loop = "running"
    /\ processNext
    /\ UNCHANGED << workload, processor, done, loop, accepted >>

\* case <-wfq.processor: wfq.processNext()
Wake ==
    /\ panic = "none"
    /\ loop = "running"
    /\ processor > 0
    /\ processor' = processor - 1
    /\ processNext
    /\ UNCHANGED << workload, done, loop, accepted >>

\* case <-wfq.done: return
Exit ==
    /\ panic = "none"
    /\ loop = "running"
    /\ done
    /\ loop' = "exited"
    /\ UNCHANGED << workload, queues, heap, virtualTime, processor, done,
                    panic, accepted, completion, events >>

\* close(wfq.done)
Stop ==
    /\ panic = "none"
    /\ IF done
       THEN panic' = "close of closed channel" /\ UNCHANGED done
       ELSE done' = TRUE /\ UNCHANGED panic
    /\ UNCHANGED << workload, queues, heap, virtualTime, processor, loop,
                    accepted, completion, events >>

\* avgDelay := time.Duration(0); if processed > 0 { avgDelay =
\* time.Duration(totalDelay / processed) }
AvgDelay(totalDelay, processed) ==
    IF processed > 0 THEN totalDelay \div processed ELSE 0

\* Mutant: every class is reported active.
StatsOfAllActive(qs) ==
    [ c \in DOMAIN qs |->
        [ weight    |-> qs[c].weight,
          processed |-> qs[c].processed,
          pending   |-> Len(qs[c].requests),
          avgDelay  |-> AvgDelay(qs[c].totalDelay, qs[c].processed),
          active    |-> TRUE ] ]

\* The snapshot GetStats returns.
StatsOf(qs) ==
    [ c \in DOMAIN qs |->
        [ weight    |-> qs[c].weight,
          processed |-> qs[c].processed,
          pending   |-> Len(qs[c].requests),
          avgDelay  |-> AvgDelay(qs[c].totalDelay, qs[c].processed),
          active    |-> qs[c].active ] ]

GetStats ==
    /\ panic = "none"
    /\ StatsOf(queues) \in [Registered -> [weight : Int, processed : Nat,
                                           pending : Nat, avgDelay : Nat,
                                           active : BOOLEAN]]
    /\ UNCHANGED data

\* Every call and every case of processLoop as one step: the mutex is taken
\* and released within the step.
Whole == UNCHANGED << mu, pc, limiters, services >>

Next ==
    \/ \E p \in workload.register : AddQueue(p[1], p[2]) /\ Whole
    \/ \E p \in workload.enqueue : Enqueue(p[1], p[2]) /\ Whole
    \/ Tick /\ Whole
    \/ Wake /\ Whole
    \/ GetStats /\ Whole

\* The same steps, and Stop and the exit of processLoop.
StopNext ==
    \/ \E p \in workload.register : AddQueue(p[1], p[2]) /\ Whole
    \/ \E p \in workload.enqueue : Enqueue(p[1], p[2]) /\ Whole
    \/ Tick /\ Whole
    \/ Wake /\ Whole
    \/ GetStats /\ Whole
    \/ Stop /\ Whole
    \/ Exit /\ Whole

\* The scheduler under the flood workload, with Stop.
FloodSpec == SchedulerOf(Flood) /\ [][StopNext]_vars

\* The scheduler under the tied workload.
TieSpec == SchedulerOf(Tied) /\ [][Next]_vars

\* The scheduler under the stopping workload, with Stop.
StopSpec == SchedulerOf(Stopping) /\ [][StopNext]_vars

\* The same with the Go scheduler running processLoop: a case of the select
\* that stays ready is eventually taken; the ticker's case and the
\* wake-up's case are ready until the loop exits, the case of the closed
\* done channel from Stop on.
StopFairSpec ==
    StopSpec /\ WF_vars((Tick \/ Wake) /\ Whole) /\ WF_vars(Exit /\ Whole)

\* The scheduler while nobody calls Stop.
Spec == SchedulerOf(General) /\ [][Next]_vars

\* The same scheduler under the deep workload.
DeepSpec == SchedulerOf(Deep) /\ [][Next]_vars

\* The same scheduler under the skewed workload.
SkewSpec == SchedulerOf(Skewed) /\ [][Next]_vars

\* The same scheduler under the valid workload.
ValidSpec == SchedulerOf(Valid) /\ [][Next]_vars

\* The same scheduler under the priority workload.
PrioritySpec == SchedulerOf(Priority) /\ [][Next]_vars

\* The same scheduler under the traced workload.
TraceSpec == SchedulerOf(Traced) /\ [][Next]_vars

\* The scheduler under the overtaking workload.
OvertakeSpec == SchedulerOf(Overtaking) /\ [][Next]_vars

\* The Go scheduler runs the processLoop goroutine and the ticker fires
\* every 10 ms: a loop that can take one of its cases eventually does.
FairSpec == Spec /\ WF_vars((Tick \/ Wake) /\ Whole)


(***************************************************************************)
(* The calls step by step.  Every method starts with wfq.mu.Lock() and     *)
(* defers wfq.mu.Unlock(): a goroutine first makes the call (or            *)
(* processLoop takes a case of its select), then gets the mutex, then runs *)
(* the body and releases the mutex as it returns.                          *)
(***************************************************************************)
\* Number of Enqueue calls to the registered classes in one behaviour of
\* the contended workload.
MaxContended == 2

\* Two callers with two classes, one of them registered with either of two
\* weights, and an id that is never registered.
Contended ==
    [ register |-> { <<"gold", 4>>, <<"gold", 2>>, <<"bronze", 1>> },
      enqueue  |-> { <<"gold", 1>>, <<"bronze", 2>>, <<"ghost", 1>> },
      limit    |-> MaxContended,
      quota    |-> [ c \in {"gold", "bronze"} |-> MaxContended ],
      log      |-> FALSE,
      delays   |-> { 0, 2 } ]

\* The calls the callers of workload W make.
CallsOf(W) ==
    { [ op |-> "AddQueue", id |-> p[1], arg |-> p[2] ] : p \in W.register }
      \cup { [ op |-> "Enqueue", id |-> p[1], arg |-> p[2] ] : p \in W.enqueue }
      \cup { [ op |-> "GetStats", id |-> "", arg |-> 0 ] }

\* wfq.processNext(), called by processLoop alone.
ProcessNextCall == [ op |-> "processNext", id |-> "", arg |-> 0 ]

\* Number of Enqueue calls to the workload's classes that have been made
\* and have not returned.
InFlight ==
    Cardinality({ t \in Threads :
                    /\ pc[t].at \in {"Lock", "body"}
                    /\ pc[t].call.op = "Enqueue"
                    /\ pc[t].call.id \in IDs(workload.register) })

\* A caller calls a method: it is now at the method's wfq.mu.Lock().
Call(t, c) ==
    /\ panic = "none"
    /\ pc[t] = Idle
    /\ (c.op = "Enqueue" /\ c.id \in IDs(workload.register))
          => Issued + InFlight < workload.limit
    /\ pc' = [pc EXCEPT ![t] = [ at |-> "Lock", call |-> c ]]
    /\ UNCHANGED << data, mu, limiters, services >>

\* case <-ticker.C: processLoop is now at processNext's wfq.mu.Lock().
SelectTick ==
    /\ panic = "none"
    /\ loop = "running"
    /\ pc["processLoop"] = Idle
    /\ pc' = [pc EXCEPT !["processLoop"] =
                 [ at |-> "Lock", call |-> ProcessNextCall ]]
    /\ UNCHANGED << data, mu, limiters, services >>

\* case <-wfq.processor: the same, with one wake-up taken off the channel.
SelectWake ==
    /\ panic = "none"
    /\ loop = "running"
    /\ pc["processLoop"] = Idle
    /\ processor > 0
    /\ processor' = processor - 1
    /\ pc' = [pc EXCEPT !["processLoop"] =
                 [ at |-> "Lock", call |-> ProcessNextCall ]]
    /\ UNCHANGED << workload, queues, heap, virtualTime, done, loop, panic,
                    accepted, completion, events, mu, limiters, services >>

\* Mutant: Lock returns whether or not the mutex is held.
AcquirableAlways(m) == TRUE

\* sync.Mutex: Lock returns only when the mutex is free.
Acquirable(m) == m = "free"

\* wfq.mu.Lock()
Lock(t) ==
    /\ panic = "none"
    /\ pc[t].at = "Lock"
    /\ Acquirable(mu)
    /\ mu' = t
    /\ pc' = [pc EXCEPT ![t].at = "body"]
    /\ UNCHANGED << data, limiters, services >>

\* Mutant: Enqueue returns a handle and no error for every id.
EnqueueResultAlwaysHandle(queueID) == [ handle |-> Issued + 1, err |-> "nil" ]

\* What Enqueue returns: (nil, error) for an id that is not registered,
\* (request.Done, nil) otherwise; the handle is the request's id, 0 is nil.
EnqueueResult(queueID) ==
    IF queueID \notin Registered
    THEN [ handle |-> 0, err |-> "queue not found" ]
    ELSE [ handle |-> Issued + 1, err |-> "nil" ]

\* AddQueue has no results: whether or not the id was registered before,
\* the caller is told of no error.
AddQueueResult(id) == [ handle |-> 0, err |-> "nil" ]

\* The body of the method, from after Lock to the deferred Unlock.
Body(t) ==
    /\ pc[t].at = "body"
    /\ LET c == pc[t].call
       IN  /\ CASE c.op = "AddQueue" -> AddQueue(c.id, c.arg)
                 [] c.op = "Enqueue" -> Enqueue(c.id, c.arg)
                 [] c.op = "GetStats" -> GetStats
                 [] c.op = "processNext" ->
                        /\ panic = "none"
                        /\ processNext
                        /\ UNCHANGED << workload, processor, done, loop,
                                        accepted >>
           /\ pc' = [pc EXCEPT ![t] =
                        CASE c.op = "Enqueue" ->
                                 [ at |-> "return", call |-> c,
                                   ret |-> EnqueueResult(c.id) ]
                          [] c.op = "AddQueue" ->
                                 [ at |-> "return", call |-> c,
                                   ret |-> AddQueueResult(c.id) ]
                          [] c.op = "GetStats" ->
                                 [ at |-> "return", call |-> c,
                                   ret |-> StatsOf(queues) ]
                          [] OTHER -> Idle]
    /\ mu' = "free"
    /\ UNCHANGED << limiters, services >>

\* The caller has the method's results.
Return(t) ==
    /\ pc[t].at = "return"
    /\ pc' = [pc EXCEPT ![t] = Idle]
    /\ UNCHANGED << data, mu, limiters, services >>

LockNext ==
    \/ \E t \in Callers : \E c \in CallsOf(workload) : Call(t, c)
    \/ SelectTick
    \/ SelectWake
    \/ \E t \in Threads : Lock(t)
    \/ \E t \in Threads : Body(t)
    \/ \E t \in Callers : Return(t)

\* Two callers and processLoop, step by step.
LockSpec == SchedulerOf(Contended) /\ [][LockNext]_vars

(***************************************************************************)
(* Properties                                                              *)
(***************************************************************************)
\* The ids of the requests in the pending queue of class c.
PendingIDs(c) == { queues[c].requests[i].id : i \in 1..Len(queues[c].requests) }

RECURSIVE SumOver(_, _)
SumOver(S, f) ==
    IF S = {} THEN 0
    ELSE LET x == CHOOSE y \in S : TRUE
         IN  f[x] + SumOver(S \ {x}, f)

\* C1: a request is taken out of its class queue and its Done channel is
\* sent to and closed at most once: no request is fulfilled twice, a
\* fulfilled request is in no queue any more, and no request is in two
\* places of the queues.
C1_AtMostOnce ==
    /\ panic # "send on closed channel"
    /\ \A id \in 1..Issued : completion[id] <= 1
    /\ \A c \in Registered :
         /\ \A id \in PendingIDs(c) : completion[id] = 0
         /\ Cardinality(PendingIDs(c)) = Len(queues[c].requests)
         /\ \A d \in Registered \ {c} : PendingIDs(c) \cap PendingIDs(d) = {}

\* A request of a class has been fulfilled while a later request of the
\* same class is still pending.
C1_Witness ==
    \E c \in Registered :
        /\ queues[c].processed >= 1
        /\ Len(queues[c].requests) >= 1
        /\ \E id \in 1..Issued : completion[id] = 1

C3_Conservation ==
    /\ \A c \in Registered :
         accepted[c] = queues[c].processed + Len(queues[c].requests)
    /\ (\A c \in Registered : Len(queues[c].requests) = 0)
         => SumOver(Registered, [c \in Registered |-> queues[c].processed]) = Issued

\* The system has drained after requests to several classes.
C3_Witness ==
    /\ Issued = workload.limit
    /\ \A c \in Registered : Len(queues[c].requests) = 0
    /\ Cardinality({ c \in Registered : queues[c].processed >= 1 }) >= 2

\* C10: a class occurs in the heap at most once.
C10_HeapNoDuplicates ==
    \A i, j \in 1..Len(heap) : i # j => heap[i] # heap[j]

\* Two classes are in the heap and one of them has had a second Enqueue
\* while it was active.
C10_Witness ==
    /\ Len(heap) >= 2
    /\ \E c \in Registered : queues[c].active /\ Len(queues[c].requests) >= 2

\* C4: every dispatch serves a class whose virtualFinish is minimal in the
\* heap at the moment of the pop: no class is dispatched while a class with
\* a strictly smaller virtualFinish is in the heap.
C4_MinimalFinishServed ==
    [][ \A c \in Registered :
          queues'[c].processed = queues[c].processed + 1
            => \A d \in Members(heap) :
                 ~FLess(queues[d].virtualFinish, queues[c].virtualFinish) ]_vars

\* C8: an Enqueue that makes an inactive class active sets the class's
\* virtualFinish to max(virtualTime, 0) + size/weight, with the virtual time
\* of that moment.
C8_IdleRestart ==
    [][ \A c \in Registered :
          (~queues[c].active /\ queues'[c].active)
            => LET pending == queues'[c].requests
                   request == pending[Len(pending)]
               IN  queues'[c].virtualFinish =
                       FAdd(FMax(virtualTime, Fin(0)),
                            FDiv(request.size, queues[c].weight)) ]_vars

\* A class that was dispatched and drained has just been made active again,
\* after another class was dispatched in between.
C8_Witness ==
    /\ Len(events) >= 3
    /\ LET last == events[Len(events)]
       IN  /\ last.op = "enqueue"
           /\ last.queueID \notin last.active
           /\ \E i, j \in 1..Len(events) :
                /\ i < j
                /\ events[i].op = "dispatch"
                /\ events[i].queueID = last.queueID
                /\ events[j].op = "dispatch"
                /\ events[j].queueID # last.queueID

\* C9: no step makes virtualTime anything but greater than or equal to its
\* previous value.
C9_ClockNeverDecreases ==
    [][ FGeq(virtualTime', virtualTime) ]_vars

\* The index in the history at which request id was dispatched, or one past
\* the end of the history while it is pending.
DispatchIndex(id) ==
    IF \E k \in 1..Len(events) : events[k].op = "dispatch" /\ events[k].id = id
    THEN CHOOSE k \in 1..Len(events) :
             events[k].op = "dispatch" /\ events[k].id = id
    ELSE Len(events) + 1

\* The accepted Enqueue calls that made an inactive class active.
Activations ==
    { a \in 1..Len(events) :
        events[a].op = "enqueue" /\ events[a].queueID \notin events[a].active }

\* The dispatches of class d between the Enqueue at index a and the
\* dispatch of its request.
Overtakers(a, d) ==
    { k \in (a + 1)..(DispatchIndex(events[a].id) - 1) :
        events[k].op = "dispatch" /\ events[k].queueID = d }

\* size/weight of the request of event k.
Cost(k) == FDiv(events[k].size, queues[events[k].queueID].weight)

\* Every request so far has a positive size and a class of positive weight.
AllPositive ==
    \A k \in 1..Len(events) :
        events[k].size > 0 /\ queues[events[k].queueID].weight > 0

\* C7 as claimed, for positive sizes and weights alone: between the Enqueue
\* of a request to an inactive class and its dispatch, every other class
\* that was active at the Enqueue is dispatched at most once.
C7_SinglePacketBound ==
    AllPositive =>
        \A a \in Activations :
            \A d \in events[a].active \ {events[a].queueID} :
                Cardinality(Overtakers(a, d)) <= 1

\* C7 as amended: between the Enqueue of a request to an inactive class and
\* its dispatch, every other class that was active at the Enqueue has at
\* most one request dispatched whose size/weight is larger than that of the
\* new request; requests that cost no more may be dispatched before it any
\* number of times.
C7_OneLargerPacket ==
    AllPositive =>
        \A a \in Activations :
            \A d \in events[a].active \ {events[a].queueID} :
                Cardinality({ k \in Overtakers(a, d) :
                                FLess(Cost(a), Cost(k)) }) <= 1

\* A request to an inactive class has been dispatched after a class that
\* was active at its Enqueue was dispatched twice, once with a request of
\* larger size/weight.
C7_Witness ==
    AllPositive /\ \E a \in Activations :
        /\ DispatchIndex(events[a].id) <= Len(events)
        /\ \E d \in events[a].active \ {events[a].queueID} :
             /\ Cardinality(Overtakers(a, d)) >= 2
             /\ \E k \in Overtakers(a, d) : FLess(Cost(a), Cost(k))

\* The classes in the heap right after event k.
ActiveAfter(k) ==
    IF k < Len(events) THEN events[k + 1].active ELSE Members(heap)

\* The total size of the requests of class c dispatched by the events a..b.
RECURSIVE Service(_, _, _)
Service(c, a, b) ==
    IF a > b THEN 0
    ELSE (IF events[b].op = "dispatch" /\ events[b].queueID = c
          THEN events[b].size ELSE 0) + Service(c, a, b - 1)

\* Classes i and j are in the heap before event a and after each of the
\* events a..b.
Backlogged(i, j, a, b) ==
    /\ {i, j} \subseteq events[a].active
    /\ \A k \in a..b : {i, j} \subseteq ActiveAfter(k)

\* The largest size a request of the workload has.
MaxSize == CHOOSE s \in { p[2] : p \in workload.enqueue } :
               \A p \in workload.enqueue : p[2] <= s

Abs(n) == IF n < 0 THEN -n ELSE n

\* C5: over any interval in which two classes of positive weight are both
\* backlogged, |S_i/w_i - S_j/w_j| <= maxSize/w_i + maxSize/w_j, S being the
\* total size dispatched in the interval (all terms multiplied by w_i * w_j).
C5_ProportionalService ==
    \A i, j \in Registered :
        (i # j /\ queues[i].weight > 0 /\ queues[j].weight > 0) =>
            \A a, b \in 1..Len(events) :
                (a <= b /\ Backlogged(i, j, a, b)) =>
                    Abs(Service(i, a, b) * queues[j].weight
                          - Service(j, a, b) * queues[i].weight)
                      <= MaxSize * (queues[i].weight + queues[j].weight)

\* The accepted Enqueue calls for class c with the given size.
Enqueues(c, size) ==
    { k \in 1..Len(events) :
        events[k].op = "enqueue" /\ events[k].queueID = c /\ events[k].size = size }

\* C6: when class high (weight 10) submits a request of size 100 while a
\* request of size 10000 of class low (weight 1) is pending, the request of
\* high is dispatched before that of low.
C6_NoHeadOfLineBlocking ==
    \A l \in Enqueues("low", 10000), h \in Enqueues("high", 100) :
        (l < h /\ h < DispatchIndex(events[l].id)) =>
            (DispatchIndex(events[l].id) <= Len(events) =>
                DispatchIndex(events[h].id) < DispatchIndex(events[l].id))

\* Test 4 of main() has run: low's request of size 10000 was submitted
\* first, high's request of size 100 while it was pending, and both have
\* been dispatched.
C6_Witness ==
    \E l \in Enqueues("low", 10000), h \in Enqueues("high", 100) :
        /\ l = 1
        /\ l < h
        /\ h < DispatchIndex(events[l].id)
        /\ DispatchIndex(events[h].id) < DispatchIndex(events[l].id)
        /\ DispatchIndex(events[l].id) <= Len(events)

\* C11: between any two steps (the mutex is free), a class is in the heap
\* if and only if its active flag is set, and if and only if its pending
\* queue is not empty; GetStats reports a class without pending requests
\* inactive; and the class processNext would pop next has a request, so the
\* branch for a popped class with an empty queue is never taken.
C11_HeapActivePending ==
    /\ \A c \in Registered :
          /\ (c \in Members(heap)) <=> queues[c].active
          /\ queues[c].active <=> (Len(queues[c].requests) > 0)
          /\ (StatsOf(queues)[c].pending = 0) => ~StatsOf(queues)[c].active
    /\ Len(heap) > 0 =>
          Len(queues[HeapPop(queues, heap).item].requests) > 0

\* A class that has been served and whose queue has emptied is out of the
\* heap while another class is waiting in it.
C11_Witness ==
    \E c \in Registered :
        /\ queues[c].processed > 0
        /\ Len(queues[c].requests) = 0
        /\ ~queues[c].active
        /\ c \notin Members(heap)
        /\ Len(heap) > 0

\* The goroutines between a Lock and its Unlock.
InCritical == { t \in Threads : pc[t].at = "body" }

\* C12: at most one goroutine at a time is between wfq.mu.Lock() and
\* wfq.mu.Unlock(), where all reads and writes of the registry, the heap,
\* the pending queues and virtualTime happen; the mutex is held exactly
\* then; and at most one call of processNext has been made and has not
\* returned.
C12_MutualExclusion ==
    /\ Cardinality(InCritical) <= 1
    /\ (mu = "free") <=> (InCritical = {})
    /\ Cardinality({ t \in Threads : /\ pc[t].at \in {"Lock", "body"}
                                     /\ pc[t].call.op = "processNext" }) <= 1

\* processNext runs while both callers wait at Enqueue's Lock.
C12_Witness ==
    /\ pc["processLoop"].at = "body"
    /\ \A t \in Callers : pc[t].at = "Lock" /\ pc[t].call.op = "Enqueue"
    /\ Len(heap) > 0

\* The workload has a further Enqueue call p to make.
CanCall(p) ==
    /\ Issued < workload.limit
    /\ p[1] \in Registered => accepted[p[1]] < workload.quota[p[1]]

\* C13: while the process runs, every Enqueue call the callers make goes
\* through to its return in its own step, whatever the state of the wake-up
\* channel, of the done channel and of processLoop, and however many
\* requests are waiting to be served.
C13_EnqueueNeverWaits ==
    panic = "none" =>
        \A p \in workload.enqueue :
            CanCall(p) => ENABLED (Enqueue(p[1], p[2]) /\ Whole)

\* Every request has been accepted and none dispatched, so that the last
\* Enqueue found the wake-up channel full, and processLoop has exited.
C13_Witness ==
    /\ processor = ProcessorCap
    /\ loop = "exited"
    /\ Issued = MaxFlood
    /\ Issued > ProcessorCap
    /\ \A id \in 1..Issued : completion[id] = 0

\* C14: no caller ever receives from a Done channel here, and still the
\* process never panics and processLoop can always take its next case: after
\* a dispatch it goes on to the next one.
C14_FulfilmentNeverStalls ==
    /\ panic = "none"
    /\ loop = "running" => ENABLED (Tick /\ Whole)

\* Two requests have been dispatched, none of them received, and a third
\* request is waiting to be dispatched.
C14_Witness ==
    /\ Cardinality({ id \in 1..Issued : completion[id] = 1 }) >= 2
    /\ Len(heap) > 0
    /\ panic = "none"

\* A case of processLoop has dispatched a request in this step.
Dispatched == Len(completion') = Len(completion) /\ completion' # completion

\* C15: every wake-up of processLoop (a tick or a wake-up notification)
\* that dispatches a request goes on dispatching until the heap is empty.
C15_DrainToExhaustion == [][Dispatched => Len(heap') = 0]_vars

\* C16: once Stop has been called, no Enqueue call is accepted: no request
\* is added to a pending queue and no class to the heap.
C16_RejectedAfterStop ==
    [][done => (Issued' = Issued /\ Members(heap') \subseteq Members(heap))]_vars

\* C17: every request accepted before Stop was called is eventually
\* fulfilled, whether it was dispatched before Stop or was still queued
\* when Stop was called (a panic of the process apart).
C17_NoHandleLeftPending ==
    \A id \in 1..Stopping.limit :
        (Issued >= id /\ ~done)
            ~> ((Issued >= id /\ completion[id] >= 1) \/ panic # "none")

\* C18: once Stop has been called processLoop exits (a panic of the process
\* apart), and no request is dispatched after Stop has returned.
C18_StopHaltsDispatch ==
    /\ done ~> (loop = "exited" \/ panic # "none")
    /\ [][done => ~Dispatched]_vars

C20_InvalidSizeRejected ==
    \A c \in Registered :
        \A i \in 1..Len(queues[c].requests) : queues[c].requests[i].size > 0

\* C21: every registered class has a weight greater than 0 (an AddQueue
\* call with a weight of 0 or less is refused and registers nothing).
C21_InvalidWeightRejected ==
    \A c \in Registered : queues[c].weight > 0

\* Caller t's AddQueue call for an id that is registered already runs its
\* body in this step.
DuplicateAddQueue(t) ==
    /\ pc[t].at = "body"
    /\ pc[t].call.op = "AddQueue"
    /\ pc[t].call.id \in Registered
    /\ pc'[t].at = "return"

\* C22: an AddQueue call for an id that is registered already returns an
\* error and leaves the class as it was: weight, pending requests,
\* virtualFinish, active flag and processed count.
C22_DuplicateClassRejected ==
    [][\A t \in Callers :
         DuplicateAddQueue(t) =>
             (pc'[t].ret.err # "nil" /\ queues' = queues)]_vars

\* The part of C22 that the code keeps: the call leaves every class,
\* the heap and virtualTime as they were.
DuplicateLeavesClass ==
    [][\A t \in Callers :
         DuplicateAddQueue(t) =>
             UNCHANGED << queues, heap, virtualTime >>]_vars

\* The place of class c in the order of the registrations.
RegIndex(c) ==
    CHOOSE k \in 1..Len(events) :
        events[k].op = "register" /\ events[k].queueID = c

\* C23: a dispatch serves, among the classes of the heap whose
\* virtualFinish equals that of the class served, the one registered first.
C23_TieBrokenByRegistration ==
    [][Dispatched =>
         LET c == HeapPop(queues, heap).item
         IN  \A d \in Members(heap) :
                 queues[d].virtualFinish = queues[c].virtualFinish
                     => RegIndex(c) <= RegIndex(d)]_vars

\* Caller t's GetStats call runs its body in this step.
GetStatsReturns(t) ==
    /\ pc[t].at = "body"
    /\ pc[t].call.op = "GetStats"
    /\ pc'[t].at = "return"

\* C24: the snapshot GetStats returns covers every registered class and is
\* of one state of the scheduler: for each class processed + pending is the
\* number of requests accepted, and the class is active exactly when
\* requests are pending; the average delay of a class with nothing
\* processed is 0; and the call leaves the scheduler as it was.
C24_StatsSnapshot ==
    [][\A t \in Callers :
         GetStatsReturns(t) =>
             LET stats == pc'[t].ret
             IN  /\ DOMAIN stats = Registered
                 /\ \A c \in Registered :
                       /\ stats[c].processed + stats[c].pending = accepted[c]
                       /\ stats[c].active <=> (stats[c].pending > 0)
                       /\ stats[c].processed = 0 => stats[c].avgDelay = 0
                 /\ UNCHANGED data]_vars

\* GetStats has returned a snapshot with a class that was served with a
\* delay, and a class with nothing processed, a pending request and an
\* average delay of 0.
C24_Witness ==
    \E t \in Callers :
        /\ pc[t].at = "return"
        /\ pc[t].call.op = "GetStats"
        /\ \E c \in DOMAIN pc[t].ret :
               pc[t].ret[c].processed > 0 /\ pc[t].ret[c].avgDelay > 0
        /\ \E c \in DOMAIN pc[t].ret :
               /\ pc[t].ret[c].processed = 0
               /\ pc[t].ret[c].pending > 0
               /\ pc[t].ret[c].avgDelay = 0

\* C25: a step that registers a new class leaves the heap, virtualTime and
\* every other class as they were, and the new class starts inactive, with
\* no pending request and nothing processed, outside the heap.
C25_RegistrationFrame ==
    [][\A id \in IDs(workload.register) :
         (id \notin Registered /\ id \in Registered') =>
             /\ heap' = heap
             /\ virtualTime' = virtualTime
             /\ \A c \in Registered : queues'[c] = queues[c]
             /\ ~queues'[id].active
             /\ queues'[id].requests = << >>
             /\ queues'[id].processed = 0
             /\ id \notin Members(heap')]_vars

\* A class that has had no request is registered and inactive while another
\* class is in the heap and the clock has advanced.
C25_Witness ==
    \E c \in Registered :
        /\ accepted[c] = 0
        /\ ~queues[c].active
        /\ Len(heap) > 0
        /\ virtualTime # Fin(0)

(***************************************************************************)
(* Package ratelimit: FixedWindow, SlidingWindow and TokenBucket behind    *)
(* the Limiter interface.  Time is in ticks of config.Clock; a time.Time   *)
(* is the number of ticks since the limiter was made.                      *)
(***************************************************************************)
\* The largest int.  Go's int has 32 or 64 bits, by platform; this is the
\* 32-bit one, and the arithmetic below wraps the same way at 64 bits.
MaxInt == 2147483647
MinInt == (-MaxInt) - 1

\* a + b on int: a sum that does not fit wraps around.
AddInt(a, b) ==
    IF b > 0 /\ a > MaxInt - b THEN (a - MaxInt - 1) + (b - MaxInt - 1)
    ELSE IF b < 0 /\ a < MinInt - b THEN (a + MaxInt + 1) + (b + MaxInt + 1)
    ELSE a + b

\* a - b on int.
SubInt(a, b) ==
    IF b < 0 /\ a > MaxInt + b THEN (a - MaxInt - 1) - (b + MaxInt + 1)
    ELSE IF b > 0 /\ a < MinInt + b THEN (a + MaxInt + 1) - (b - MaxInt - 1)
    ELSE a - b

\* Bounds of the limiters' runs.
MaxRate == 2        \* Config.Rate
MaxPeriod == 2      \* Config.Period of the windows, in ticks
MaxRefill == 2      \* the token bucket's refillPeriod, in ticks
MaxBurst == 3       \* Config.Burst
MaxCalls == 2       \* Allow, AllowN, Reset and Available calls in a run

\* time.Millisecond * 10, the wait of a SlidingWindow with no request.
SmallWait == 10

Kinds == { "FixedWindow", "SlidingWindow", "TokenBucket" }

\* The goroutines that call WaitN, and the one that makes the other calls.
Waiting == { "waiter1", "waiter2" }
Caller == "caller"

\* NewConfig(WithRate, WithPeriod, WithBurst, WithClock): the Config of a
\* limiter of the kind, with the goroutines that call WaitN, the number of
\* other calls, the time from which no call begins any more and the time at
\* which the run ends.
ConfigOf(kind, ws, calls, lastCall, horizon) ==
    [ kind     |-> kind,
      Rate     |-> MaxRate,
      Period   |-> IF kind = "TokenBucket" THEN MaxRate * MaxRefill
                   ELSE MaxPeriod,
      Burst    |-> MaxBurst,
      waiters  |-> ws,
      calls    |-> calls,
      lastCall |-> lastCall,
      horizon  |-> horizon ]

(***************************************************************************)
(* FixedWindow                                                             *)
(***************************************************************************)
\* &FixedWindow{config, count: 0, windowStart: cfg.Clock.Now()}
NewFixedWindow(now) == [ count |-> 0, windowStart |-> now ]

\* Mutant: the window moves on and the count stays.
resetIfNewWindowKeeps(fw, c, now) ==
    IF now >= fw.windowStart + c.Period
    THEN [fw EXCEPT !.windowStart =
                        @ + ((now - fw.windowStart) \div c.Period) * c.Period]
    ELSE fw

\* fw.resetIfNewWindow() at time now
resetIfNewWindow(fw, c, now) ==
    IF now >= fw.windowStart + c.Period
    THEN [ count       |-> 0,
           windowStart |-> fw.windowStart
                           + ((now - fw.windowStart) \div c.Period) * c.Period ]
    ELSE fw

\* fw.AllowN(n), and the admission step of fw.WaitN(ctx, n): the limiter
\* afterwards and the result.
FixedWindowAllowN(fw, c, now, n) ==
    LET r == resetIfNewWindow(fw, c, now)
    IN  IF AddInt(r.count, n) <= c.Rate
        THEN [ l |-> [r EXCEPT !.count = AddInt(@, n)], ok |-> TRUE ]
        ELSE [ l |-> r, ok |-> FALSE ]

\* fw.WaitN: waitDuration, for the limiter a failed admission leaves.
FixedWindowWait(fw, c, now) ==
    LET nextWindow == fw.windowStart + c.Period
    IN  nextWindow - now

\* fw.Reset()
FixedWindowReset(now) == [ count |-> 0, windowStart |-> now ]

\* fw.Available(): the limiter afterwards and the result.
FixedWindowAvailable(fw, c, now) ==
    LET r == resetIfNewWindow(fw, c, now)
        available == SubInt(c.Rate, r.count)
    IN  [ l |-> r, ret |-> IF available < 0 THEN 0 ELSE available ]

(***************************************************************************)
(* SlidingWindow                                                           *)
(***************************************************************************)
\* &SlidingWindow{config, requests: list.New()}
NewSlidingWindow == [ requests |-> << >> ]

\* sw.removeOldRequests(now): the list afterwards.
RECURSIVE removeOldRequests(_, _, _)
removeOldRequests(requests, c, now) ==
    IF requests # << >> /\ Head(requests).time < now - c.Period
    THEN removeOldRequests(Tail(requests), c, now)
    ELSE requests

\* sw.countRequests()
RECURSIVE countRequests(_)
countRequests(requests) ==
    IF requests = << >> THEN 0
    ELSE AddInt(Head(requests).count, countRequests(Tail(requests)))

\* sw.AllowN(n), and the admission step of sw.WaitN(ctx, n).
SlidingWindowAllowN(sw, c, now, n) ==
    LET kept == removeOldRequests(sw.requests, c, now)
    IN  IF AddInt(countRequests(kept), n) <= c.Rate
        THEN [ l  |-> [ requests |-> Append(kept, [ time |-> now, count |-> n ]) ],
               ok |-> TRUE ]
        ELSE [ l |-> [ requests |-> kept ], ok |-> FALSE ]

\* sw.WaitN: waitDuration.
SlidingWindowWait(sw, c, now) ==
    IF Len(sw.requests) > 0
    THEN c.Period - (now - Head(sw.requests).time)
    ELSE SmallWait

\* sw.Reset()
SlidingWindowReset == [ requests |-> << >> ]

\* sw.Available()
SlidingWindowAvailable(sw, c, now) ==
    LET kept == removeOldRequests(sw.requests, c, now)
        available == SubInt(c.Rate, countRequests(kept))
    IN  [ l   |-> [ requests |-> kept ],
          ret |-> IF available < 0 THEN 0 ELSE available ]

(***************************************************************************)
(* TokenBucket.  tokens is a float64; the model keeps tokens * refillPeriod,*)
(* which is a whole number: refill adds elapsed / refillPeriod tokens and  *)
(* AllowN removes n.                                                       *)
(***************************************************************************)
\* if cfg.Burst == 0 { cfg.Burst = cfg.Rate }
BurstOf(c) == IF c.Burst = 0 THEN c.Rate ELSE c.Burst

\* refillPeriod := cfg.Period / time.Duration(cfg.Rate)
refillPeriod(c) == c.Period \div c.Rate

\* &TokenBucket{tokens: float64(cfg.Burst), lastRefill: cfg.Clock.Now(),
\* refillAmount: 1.0, refillPeriod}
NewTokenBucket(c, now) ==
    [ tokens |-> BurstOf(c) * refillPeriod(c), lastRefill |-> now ]

min(a, b) == IF a < b THEN a ELSE b

\* Mutant: the bucket has no top.
refillUncapped(tb, c, now) ==
    LET elapsed == now - tb.lastRefill
    IN  IF elapsed > 0
        THEN [ tokens |-> tb.tokens + elapsed, lastRefill |-> now ]
        ELSE tb

\* tb.refill() at time now; tokensToAdd is elapsed / refillPeriod * 1.0.
refill(tb, c, now) ==
    LET elapsed == now - tb.lastRefill
    IN  IF elapsed > 0
        THEN [ tokens     |-> min(tb.tokens + elapsed,
                                  BurstOf(c) * refillPeriod(c)),
               lastRefill |-> now ]
        ELSE tb

\* tb.tokens >= float64(n)
HasTokens(tb, c, n) == tb.tokens \div refillPeriod(c) >= n

\* tb.AllowN(n), and the admission step of tb.WaitN(ctx, n).
TokenBucketAllowN(tb, c, now, n) ==
    LET r == refill(tb, c, now)
    IN  IF HasTokens(r, c, n)
        THEN [ l  |-> [r EXCEPT !.tokens = @ - n * refillPeriod(c)],
               ok |-> TRUE ]
        ELSE [ l |-> r, ok |-> FALSE ]

\* tb.WaitN: waitDuration, which is tokensNeeded * refillPeriod.
TokenBucketWait(tb, c, n) == n * refillPeriod(c) - tb.tokens

\* tb.Reset()
TokenBucketReset(c, now) ==
    [ tokens |-> BurstOf(c) * refillPeriod(c), lastRefill |-> now ]

\* tb.Available(): int(tb.tokens) after the refill.
TokenBucketAvailable(tb, c, now) ==
    LET r == refill(tb, c, now)
    IN  [ l |-> r, ret |-> r.tokens \div refillPeriod(c) ]

(***************************************************************************)
(* The Limiter interface: a call goes to the limiter of the Config's kind. *)
(***************************************************************************)
NewLimiter(c, now) ==
    CASE c.kind = "FixedWindow"   -> NewFixedWindow(now)
      [] c.kind = "SlidingWindow" -> NewSlidingWindow
      [] c.kind = "TokenBucket"   -> NewTokenBucket(c, now)

LimiterAllowN(l, c, now, n) ==
    CASE c.kind = "FixedWindow"   -> FixedWindowAllowN(l, c, now, n)
      [] c.kind = "SlidingWindow" -> SlidingWindowAllowN(l, c, now, n)
      [] c.kind = "TokenBucket"   -> TokenBucketAllowN(l, c, now, n)

LimiterWait(l, c, now, n) ==
    CASE c.kind = "FixedWindow"   -> FixedWindowWait(l, c, now)
      [] c.kind = "SlidingWindow" -> SlidingWindowWait(l, c, now)
      [] c.kind = "TokenBucket"   -> TokenBucketWait(l, c, n)

LimiterReset(c, now) ==
    CASE c.kind = "FixedWindow"   -> FixedWindowReset(now)
      [] c.kind = "SlidingWindow" -> SlidingWindowReset
      [] c.kind = "TokenBucket"   -> TokenBucketReset(c, now)

LimiterAvailable(l, c, now) ==
    CASE c.kind = "FixedWindow"   -> FixedWindowAvailable(l, c, now)
      [] c.kind = "SlidingWindow" -> SlidingWindowAvailable(l, c, now)
      [] c.kind = "TokenBucket"   -> TokenBucketAvailable(l, c, now)

\* The n above which WaitN fails at once: config.Rate of the windows,
\* config.Burst of the bucket.
LimiterMax(c) == IF c.kind = "TokenBucket" THEN BurstOf(c) ELSE c.Rate

(***************************************************************************)
(* The callers of a limiter.  Allow, AllowN, Reset and Available hold the  *)
(* limiter's mutex from beginning to end and read the clock under it, so   *)
(* each is one step; WaitN is a step for each pass of its loop and for its *)
(* select.  Allow() is AllowN(1) and Wait(ctx) is WaitN(ctx, 1).           *)
(***************************************************************************)
\* A goroutine that has not called WaitN: where it is, its n, the
\* waitDuration it goes to its select with, the time its timer fires once
\* it is blocked there (kept afterwards; 0 when it never was), whether its
\* ctx is cancelled, whether that happened while it was blocked, and the
\* error returned.
Fresh ==
    [ at |-> "idle", n |-> 0, wait |-> 0, wake |-> 0, cancelled |-> FALSE,
      interrupted |-> FALSE, err |-> "none" ]

\* The state a constructor returns at time 0, for one of the Configs.
LimiterOf(Configs) ==
    /\ InitOf([ register |-> {}, enqueue |-> {} ])
    /\ cfg \in Configs
    /\ clock = 0
    /\ limiter = NewLimiter(cfg, 0)
    /\ waiters = [ t \in cfg.waiters |-> Fresh ]
    /\ hist = << >>
    /\ NoServices

\* The limiters' steps leave the scheduler alone.
Aside == UNCHANGED << data, mu, pc, services >>

Event(op, by, n, time) == [ op |-> op, by |-> by, n |-> n, time |-> time ]

\* The calls made so far other than WaitN.
Calls == Cardinality({ i \in DOMAIN hist : hist[i].by = Caller })

MayCall == Calls < cfg.calls /\ clock < cfg.lastCall

\* The n of a call: up to one more than the limiter's maximum, and the
\* largest int.
Sizes(c) == 1..(LimiterMax(c) + 1) \cup { MaxInt }

\* No goroutine in WaitN is behind: none is about to take the mutex or to
\* begin a select with a positive waitDuration, and no timer is due.
Prompt ==
    \A t \in cfg.waiters :
        /\ waiters[t].at # "loop"
        /\ waiters[t].at = "select" => waiters[t].wait <= 0
        /\ waiters[t].at = "blocked" => clock < waiters[t].wake

\* The clock advances by a tick.  The run ends at the horizon; from the
\* time of the last call on, the goroutines in WaitN are not held up, so
\* that the end of the run cuts no wait short.
ClockAdvance ==
    /\ clock < cfg.horizon
    /\ clock >= cfg.lastCall => Prompt
    /\ clock' = clock + 1
    /\ UNCHANGED << cfg, limiter, waiters, hist >>
    /\ Aside

\* limiter.AllowN(n)
AllowN(n) ==
    /\ MayCall
    /\ LET r == LimiterAllowN(limiter, cfg, clock, n)
       IN  /\ limiter' = r.l
           /\ hist' = Append(hist, IF r.ok THEN Event("admit", Caller, n, clock)
                                   ELSE Event("reject", Caller, 0, 0))
    /\ UNCHANGED << cfg, clock, waiters >>
    /\ Aside

\* limiter.Reset()
Reset ==
    /\ MayCall
    /\ limiter' = LimiterReset(cfg, clock)
    /\ hist' = Append(hist, Event("reset", Caller, 0, clock))
    /\ UNCHANGED << cfg, clock, waiters >>
    /\ Aside

\* limiter.Available()
Available ==
    /\ MayCall
    /\ LET r == LimiterAvailable(limiter, cfg, clock)
       IN  /\ limiter' = r.l
           /\ hist' = Append(hist, Event("available", Caller, r.ret, 0))
    /\ UNCHANGED << cfg, clock, waiters >>
    /\ Aside

\* WaitN: n > config.Rate, or n > config.Burst for the bucket
TooMany(c, n) == n > LimiterMax(c)

\* t calls limiter.WaitN(ctx, n): the check of n before the loop.
WaitN(t, n) ==
    /\ waiters[t].at = "idle"
    /\ clock < cfg.lastCall
    /\ waiters' = [waiters EXCEPT ![t] =
                       IF TooMany(cfg, n)
                       THEN [@ EXCEPT !.at = "returned", !.err = "exceeds"]
                       ELSE [@ EXCEPT !.at = "loop", !.n = n]]
    /\ UNCHANGED << cfg, clock, limiter, hist >>
    /\ Aside

\* A pass of WaitN's loop, from mu.Lock() to mu.Unlock(): n is admitted and
\* WaitN returns nil, or the wait is computed.
Attempt(t) ==
    /\ waiters[t].at = "loop"
    /\ LET r == LimiterAllowN(limiter, cfg, clock, waiters[t].n)
       IN  /\ limiter' = r.l
           /\ IF r.ok
              THEN /\ waiters' = [waiters EXCEPT ![t].at = "returned",
                                                 ![t].err = "nil"]
                   /\ hist' = Append(hist, Event("admit", t, waiters[t].n, clock))
              ELSE /\ waiters' = [waiters EXCEPT
                                      ![t].at = "select",
                                      ![t].wait = LimiterWait(r.l, cfg, clock,
                                                              waiters[t].n)]
                   /\ UNCHANGED hist
    /\ UNCHANGED << cfg, clock >>
    /\ Aside

\* Mutant: the select of WaitN has no case for ctx.Done().
DoneReadyNever(w) == FALSE

\* case <-ctx.Done() can be taken
DoneReady(w) == w.cancelled

\* case <-Clock.After(waitDuration) can be taken as the select begins: the
\* timer of a waitDuration that is not positive fires at once.
AfterReady(w) == w.wait <= 0

\* WaitN reaches its select, where the timer starts: it takes a case that
\* is ready, either of them when both are, and blocks when none is.
Select(t) ==
    /\ waiters[t].at = "select"
    /\ \/ /\ DoneReady(waiters[t])
          /\ waiters' = [waiters EXCEPT ![t].at = "returned", ![t].wait = 0,
                                        ![t].err = "ctx"]
       \/ /\ AfterReady(waiters[t])
          /\ waiters' = [waiters EXCEPT ![t].at = "loop", ![t].wait = 0]
       \/ /\ ~DoneReady(waiters[t])
          /\ ~AfterReady(waiters[t])
          /\ waiters' = [waiters EXCEPT ![t].at = "blocked", ![t].wait = 0,
                                        ![t].wake = clock + waiters[t].wait]
    /\ UNCHANGED << cfg, clock, limiter, hist >>
    /\ Aside

\* The timer of a blocked WaitN fires, at the time it was set for or
\* later: the loop goes round.
Fire(t) ==
    /\ waiters[t].at = "blocked"
    /\ clock >= waiters[t].wake
    /\ waiters' = [waiters EXCEPT ![t].at = "loop"]
    /\ UNCHANGED << cfg, clock, limiter, hist >>
    /\ Aside

\* The ctx of t is cancelled.  A WaitN blocked in its select is woken by
\* ctx.Done() and returns ctx.Err().
Cancel(t) ==
    /\ waiters[t].at # "returned"
    /\ ~waiters[t].cancelled
    /\ waiters' = [waiters EXCEPT ![t] =
                       IF @.at = "blocked" /\ DoneReady([@ EXCEPT !.cancelled = TRUE])
                       THEN [@ EXCEPT !.cancelled = TRUE, !.interrupted = TRUE,
                                      !.at = "returned", !.err = "ctx"]
                       ELSE [@ EXCEPT !.cancelled = TRUE]]
    /\ UNCHANGED << cfg, clock, limiter, hist >>
    /\ Aside

LimitNext ==
    \/ ClockAdvance
    \/ \E n \in Sizes(cfg) : AllowN(n)
    \/ Reset
    \/ Available
    \/ \E t \in cfg.waiters : \E n \in Sizes(cfg) : WaitN(t, n)
    \/ \E t \in cfg.waiters : Attempt(t)
    \/ \E t \in cfg.waiters : Select(t)
    \/ \E t \in cfg.waiters : Fire(t)
    \/ \E t \in cfg.waiters : Cancel(t)

\* Two Periods of the windows of each kind of limiter: one goroutine in
\* WaitN beside the other calls, or both goroutines in WaitN beside one
\* other call.  Calls begin at any time.
Limited(kind) ==
    { ConfigOf(kind, { "waiter1" }, MaxCalls, 2 * MaxPeriod + 1, 2 * MaxPeriod),
      ConfigOf(kind, Waiting, 1, 2 * MaxPeriod + 1, 2 * MaxPeriod) }

\* The time a limiter needs to have its whole capacity back, and a tick.
Recovery(kind) ==
    IF kind = "TokenBucket" THEN MaxBurst * MaxRefill + 1 ELSE MaxPeriod + 1

\* One goroutine in WaitN beside the other calls; no call begins after the
\* first Period, and the run goes on until the limiter has recovered.
Patient(kind) ==
    LET period == IF kind = "TokenBucket" THEN MaxRate * MaxRefill ELSE MaxPeriod
    IN  ConfigOf(kind, { "waiter1" }, MaxCalls, period + 1,
                 period + 1 + Recovery(kind))

LimitSpec == LimiterOf(UNION { Limited(kind) : kind \in Kinds }) /\ [][LimitNext]_vars

(***************************************************************************)
(* What the history says, whatever the limiter's fields are.               *)
(***************************************************************************)
\* The index in hist of the last Reset, 0 when there was none.
LastReset ==
    LET resets == { i \in DOMAIN hist : hist[i].op = "reset" }
    IN  IF resets = {} THEN 0 ELSE CHOOSE i \in resets : \A j \in resets : j <= i

IsAdmission(e) == e.op = "admit"

\* The admissions, in order, and those since the last Reset.
Admissions == SelectSeq(hist, IsAdmission)
AdmissionsSinceReset ==
    SelectSeq(SubSeq(hist, LastReset + 1, Len(hist)), IsAdmission)

\* The n of the admissions es add up to no more than budget; no sum is
\* formed that an int could not hold.
RECURSIVE Within(_, _)
Within(es, budget) ==
    \/ es = << >>
    \/ /\ Head(es).n <= budget
       /\ Within(Tail(es), budget - Head(es).n)

\* The fixed windows begin at the time the limiter was made or last Reset,
\* one every Period; this is the number of the window that holds time.
WindowBase == IF LastReset = 0 THEN 0 ELSE hist[LastReset].time
WindowOf(time) == (time - WindowBase) \div cfg.Period

\* The admissions since the last Reset that fall into window k.
AdmittedInWindow(k) ==
    LET InK(e) == WindowOf(e.time) = k
    IN  SelectSeq(AdmissionsSinceReset, InK)

\* The total admitted within each fixed window is at most Rate.
FixedWindowBound ==
    \A k \in 0..WindowOf(clock) : Within(AdmittedInWindow(k), cfg.Rate)

\* A step that is AllowN(n) returning false.
AllowNRejected(n) == AllowN(n) /\ ~LimiterAllowN(limiter, cfg, clock, n).ok

\* Available() would return after the step what it would have before.
SameAvailable ==
    LimiterAvailable(limiter', cfg, clock).ret
        = LimiterAvailable(limiter, cfg, clock).ret

\* No admitted n is above the limiter's maximum, as after an int overflow.
NoOverflow == \A i \in DOMAIN hist : IsAdmission(hist[i]) => hist[i].n <= LimiterMax(cfg)

\* C26: FixedWindow, under any interleaving of Allow/AllowN/WaitN calls with
\* n >= 1, Reset and clock advances: the total n admitted within one fixed
\* window never exceeds Rate, a rejected AllowN changes no counter, and
\* Available() always lies in [0, Rate].
C26_FixedWindowBound ==
    /\ [](cfg.kind = "FixedWindow" =>
            /\ FixedWindowBound
            /\ FixedWindowAvailable(limiter, cfg, clock).ret \in 0..cfg.Rate)
    /\ [][\A n \in Sizes(cfg) :
            cfg.kind = "FixedWindow" /\ AllowNRejected(n)
                => SameAvailable /\ Admissions' = Admissions]_vars

\* The same without the calls whose n makes fw.count + n overflow: as long
\* as no such call was admitted, the rest of C26 holds.
FixedWindowBoundWithoutOverflow ==
    /\ [](cfg.kind = "FixedWindow" /\ NoOverflow =>
            /\ FixedWindowBound
            /\ limiter.count \in 0..cfg.Rate
            /\ FixedWindowAvailable(limiter, cfg, clock).ret \in 0..cfg.Rate)
    /\ [][\A n \in Sizes(cfg) :
            cfg.kind = "FixedWindow" /\ AllowNRejected(n)
                => SameAvailable /\ Admissions' = Admissions]_vars

\* An AllowN(MaxInt) was admitted by a FixedWindow.
FixedWindowOverflowed ==
    /\ cfg.kind = "FixedWindow"
    /\ \E i \in DOMAIN hist : IsAdmission(hist[i]) /\ hist[i].n = MaxInt

\* The admissions with timestamps in [t - Period, t].
AdmittedAround(t) ==
    LET Near(e) == t - cfg.Period <= e.time /\ e.time <= t
    IN  SelectSeq(Admissions, Near)

\* For every instant t the calls admitted with timestamps in
\* [t - Period, t] add up to at most Rate.
SlidingWindowBound ==
    \A t \in 0..(clock + cfg.Period) : Within(AdmittedAround(t), cfg.Rate)

\* C27: SlidingWindow, under any interleaving of Allow/AllowN/WaitN calls
\* with n >= 1 and clock advances (no Reset): for every instant t the sum of
\* n over the calls admitted with timestamps in [t - Period, t] never
\* exceeds Rate.
C27_SlidingWindowBound ==
    cfg.kind = "SlidingWindow" /\ LastReset = 0 => SlidingWindowBound

\* The same without the calls whose n makes currentCount + n overflow.
SlidingWindowBoundWithoutOverflow ==
    cfg.kind = "SlidingWindow" /\ LastReset = 0 /\ NoOverflow
        => SlidingWindowBound

\* The bucket's capacity and the tokens it holds once the time since the
\* last refill is counted in, both in tokens * refillPeriod.
Capacity == BurstOf(cfg) * refillPeriod(cfg)
TokensNow ==
    IF limiter.tokens + (clock - limiter.lastRefill) < Capacity
    THEN limiter.tokens + (clock - limiter.lastRefill)
    ELSE Capacity

\* At least n tokens are in the bucket now.
Holds(n) == n <= BurstOf(cfg) /\ n * refillPeriod(cfg) <= TokensNow

\* C28: TokenBucket, after any sequence of Allow/AllowN/WaitN calls with
\* n >= 1, Reset and clock advances: the token count stays within
\* [0, Burst]; AllowN(n) succeeds exactly when at least n tokens are
\* available after refill and then removes exactly n, and a rejected AllowN
\* removes none.
C28_TokenBucketCount ==
    /\ [](cfg.kind = "TokenBucket" =>
            limiter.tokens >= 0 /\ limiter.tokens <= Capacity)
    /\ [][\A n \in Sizes(cfg) :
            cfg.kind = "TokenBucket" /\ AllowN(n) =>
                IF Holds(n)
                THEN /\ hist' = Append(hist, Event("admit", Caller, n, clock))
                     /\ limiter'.tokens = TokensNow - n * refillPeriod(cfg)
                ELSE /\ Admissions' = Admissions
                     /\ limiter'.tokens = TokensNow]_vars

\* A bucket that is neither full nor empty has admitted one AllowN and
\* rejected another, after its first tick.
C28_Witness ==
    /\ cfg.kind = "TokenBucket"
    /\ limiter.tokens > 0
    /\ limiter.tokens < Capacity
    /\ \E i, j \in DOMAIN hist :
          /\ hist[i].op = "admit" /\ hist[i].by = Caller /\ hist[i].time > 0
          /\ hist[j].op = "reject"

\* The admissions of goroutine t.
AdmissionsOf(t) ==
    LET Mine(e) == IsAdmission(e) /\ e.by = t
    IN  SelectSeq(hist, Mine)

\* C29: WaitN(ctx, n) with n above the limiter's maximum (Rate for the
\* windows, Burst for the bucket) returns an error in the step of the call,
\* without waiting; a WaitN whose ctx is cancelled while it waits in its
\* select, or that comes to wait with its ctx cancelled, returns the
\* context's error; and a WaitN that returned an error has consumed nothing.
C29_WaitNErrors ==
    /\ [][\A t \in cfg.waiters : \A n \in Sizes(cfg) :
            WaitN(t, n) /\ n > LimiterMax(cfg) =>
                /\ waiters'[t].at = "returned"
                /\ waiters'[t].err = "exceeds"
                /\ limiter' = limiter
                /\ hist' = hist]_vars
    /\ [][\A t \in cfg.waiters :
            \/ Cancel(t) /\ waiters[t].at = "blocked"
            \/ Select(t) /\ waiters[t].cancelled /\ waiters[t].wait > 0
            => /\ waiters'[t].at = "returned"
               /\ waiters'[t].err = "ctx"
               /\ limiter' = limiter
               /\ hist' = hist]_vars
    /\ [](\A t \in cfg.waiters :
            waiters[t].at = "returned" /\ waiters[t].err # "nil"
                => AdmissionsOf(t) = << >>)

\* One WaitN was refused for its n, and another was cancelled while it was
\* blocked, after capacity had been taken.
C29_Witness ==
    /\ Admissions # << >>
    /\ \E t, u \in cfg.waiters :
          /\ waiters[t].at = "returned" /\ waiters[t].err = "exceeds"
          /\ waiters[u].at = "returned" /\ waiters[u].err = "ctx"
          /\ waiters[u].interrupted

WaitSpec == LimiterOf({ Patient(kind) : kind \in Kinds }) /\ [][LimitNext]_vars

\* The clock keeps advancing whatever the goroutines do, and a goroutine in
\* WaitN that can take a step takes it.
WaitFairSpec ==
    /\ WaitSpec
    /\ SF_vars(ClockAdvance)
    /\ \A t \in Waiting :
          WF_vars(t \in cfg.waiters /\ (Attempt(t) \/ Select(t) \/ Fire(t)))

\* t is in the loop of WaitN.
InWaitN(t) ==
    t \in cfg.waiters /\ waiters[t].at \in { "loop", "select", "blocked" }

\* t's WaitN returned nil, and t was admitted once, for its n.
ReturnedNil(t) ==
    /\ t \in cfg.waiters
    /\ waiters[t].at = "returned"
    /\ waiters[t].err = "nil"
    /\ Len(AdmissionsOf(t)) = 1
    /\ AdmissionsOf(t)[1].n = waiters[t].n

\* C30: WaitN(ctx, n) with 1 <= n <= the limiter's maximum and a ctx that
\* is never cancelled eventually returns nil, having consumed exactly n,
\* provided the clock keeps advancing and the other callers stop.
C30_WaitNReturns ==
    \A t \in Waiting :
        InWaitN(t) ~> (ReturnedNil(t) \/ (t \in cfg.waiters /\ waiters[t].cancelled))

\* A WaitN returned nil after it had been blocked in its select, with its
\* ctx never cancelled.
C30_Witness ==
    \E t \in cfg.waiters :
        /\ ReturnedNil(t)
        /\ waiters[t].wake > 0
        /\ ~waiters[t].cancelled

(***************************************************************************)
(* The frame of Enqueue and the effect of one processNext.                 *)
(***************************************************************************)
\* C31: an Enqueue to a class that is active already appends the request
\* and leaves the class's virtualFinish, the heap (members and order) and
\* virtualTime as they were; and a step changes a class's virtualFinish only
\* when it makes the class active or dispatches the class's head and
\* another request is left behind it.
C31_FinishWrittenOnHeadChange ==
    [][ \A c \in Registered :
          /\ (queues[c].active
                /\ Len(queues'[c].requests) > Len(queues[c].requests))
               => /\ Len(queues'[c].requests) = Len(queues[c].requests) + 1
                  /\ SubSeq(queues'[c].requests, 1, Len(queues[c].requests))
                         = queues[c].requests
                  /\ queues'[c].virtualFinish = queues[c].virtualFinish
                  /\ heap' = heap
                  /\ virtualTime' = virtualTime
          /\ queues'[c].virtualFinish # queues[c].virtualFinish
               => \/ /\ ~queues[c].active
                     /\ queues'[c].active
                     /\ Len(queues'[c].requests) = Len(queues[c].requests) + 1
                  \/ /\ queues'[c].processed = queues[c].processed + 1
                     /\ queues'[c].requests = Tail(queues[c].requests)
                     /\ queues'[c].requests # << >> ]_vars

\* The last accepted Enqueue was for a class that was in the heap with
\* another class, after the clock had advanced.
C31_Witness ==
    /\ Len(events) >= 2
    /\ virtualTime # Fin(0)
    /\ Len(heap) >= 2
    /\ LET last == events[Len(events)]
       IN  /\ last.op = "enqueue"
           /\ last.queueID \in last.active
           /\ Len(queues[last.queueID].requests) >= 2

\* C32: a dispatch of class c sets virtualTime to the greater of its old
\* value and c's virtualFinish; when requests are left behind the served
\* head, c's virtualFinish becomes the new virtualTime plus the new head's
\* size over c's weight and c is in the heap again, still active; when none
\* is left, c is inactive and out of the heap.
C32_DispatchEffect ==
    [][ \A c \in Registered :
          queues'[c].processed = queues[c].processed + 1
            => /\ virtualTime' = FMax(virtualTime, queues[c].virtualFinish)
               /\ IF Len(queues[c].requests) > 1
                  THEN /\ queues'[c].virtualFinish =
                              FAdd(virtualTime',
                                   FDiv(queues[c].requests[2].size,
                                        queues[c].weight))
                       /\ queues'[c].active
                       /\ c \in Members(heap')
                  ELSE /\ ~queues'[c].active
                       /\ c \notin Members(heap') ]_vars

\* The last step dispatched a class that has a request left and is in the
\* heap again, with the clock advanced, after a dispatch that drained
\* another class.
C32_Witness ==
    /\ Len(events) >= 2
    /\ virtualTime # Fin(0)
    /\ LET last == events[Len(events)]
       IN  /\ last.op = "dispatch"
           /\ queues[last.queueID].active
           /\ queues[last.queueID].requests # << >>
           /\ last.queueID \in Members(heap)
           /\ \E i \in 1..(Len(events) - 1) :
                /\ events[i].op = "dispatch"
                /\ events[i].queueID # last.queueID
                /\ ~queues[events[i].queueID].active

\* C33: the requests of one class are fulfilled in the order in which their
\* Enqueue calls were accepted: when the later of two requests of a class
\* has been dispatched, the earlier one was dispatched before it.
C33_PerClassFIFO ==
    \A a, b \in 1..Len(events) :
        (/\ a < b
         /\ events[a].op = "enqueue"
         /\ events[b].op = "enqueue"
         /\ events[a].queueID = events[b].queueID
         /\ DispatchIndex(events[b].id) <= Len(events))
            => DispatchIndex(events[a].id) < DispatchIndex(events[b].id)

\* Two requests of one class were pending together and both have been
\* dispatched, with a dispatch of another class between the two.
C33_Witness ==
    \E a, b, k \in 1..Len(events) :
        /\ a < b
        /\ events[a].op = "enqueue"
        /\ events[b].op = "enqueue"
        /\ events[a].queueID = events[b].queueID
        /\ b < DispatchIndex(events[a].id)
        /\ DispatchIndex(events[a].id) < k
        /\ k < DispatchIndex(events[b].id)
        /\ DispatchIndex(events[b].id) <= Len(events)
        /\ events[k].op = "dispatch"
        /\ events[k].queueID # events[a].queueID

\* C34: one processNext that finds the heap non-empty removes exactly one
\* request, the head of one class of the heap, fulfils it, adds exactly 1 to
\* that class's processed count, and leaves every other class as it was.
C34_OneRequestPerPop ==
    [][ ((Tick \/ Wake) /\ Len(heap) > 0)
          => \E c \in Members(heap) :
               /\ queues[c].requests # << >>
               /\ queues'[c].requests = Tail(queues[c].requests)
               /\ queues'[c].processed = queues[c].processed + 1
               /\ completion'[queues[c].requests[1].id] =
                      completion[queues[c].requests[1].id] + 1
               /\ \A id \in 1..Issued :
                      id # queues[c].requests[1].id
                        => completion'[id] = completion[id]
               /\ \A d \in Registered \ {c} : queues'[d] = queues[d] ]_vars

\* The last step dispatched one request of a class that had more than one
\* pending, while another class was in the heap with it.
C34_Witness ==
    /\ Len(events) >= 1
    /\ LET last == events[Len(events)]
       IN  /\ last.op = "dispatch"
           /\ Cardinality(last.active) >= 2
           /\ queues[last.queueID].requests # << >>
           /\ \E d \in Registered \ {last.queueID} :
                  queues[d].requests # << >>

\* A step dispatches a request of class c.
Serves(c) == queues'[c].processed = queues[c].processed + 1

\* C36: with positive sizes and weights, every class in the heap has a
\* virtualFinish greater than or equal to virtualTime; virtualTime is 0
\* until the first dispatch, and every dispatch sets it to the virtualFinish
\* the dispatched class had, which is not below the value it replaces: the
\* virtualFinish values of the dispatched classes never decrease and
\* virtualTime is always the latest of them.
C36_ClockIsLastFinish ==
    /\ [](\A c \in Members(heap) : FGeq(queues[c].virtualFinish, virtualTime))
    /\ []((\A id \in 1..Issued : completion[id] = 0) => virtualTime = Fin(0))
    /\ [][ \A c \in Registered :
             Serves(c) => /\ virtualTime' = queues[c].virtualFinish
                          /\ FGeq(virtualTime', virtualTime) ]_vars
    /\ [][ virtualTime' # virtualTime => \E c \in Registered : Serves(c) ]_vars

\* Two classes have been dispatched one after the other, the second at a
\* later virtual time, and a class made active after the clock advanced is
\* in the heap.
C36_Witness ==
    /\ Len(heap) > 0
    /\ \E c \in Members(heap) : FLess(virtualTime, queues[c].virtualFinish)
    /\ \E i, j, k \in 1..Len(events) :
         /\ i < j
         /\ j < k
         /\ events[i].op = "dispatch"
         /\ events[j].op = "dispatch"
         /\ events[i].queueID # events[j].queueID
         /\ events[k].op = "enqueue"
         /\ events[k].queueID \notin events[k].active
         /\ events[k].queueID \in Members(heap)

\* Number of Enqueue calls accepted in one behaviour of the competing
\* workload.
MaxCompeting == 4

\* Two classes of main(), the heaviest and the lightest, with sizes 1 and 2.
Competing ==
    [ register |-> { <<"gold", 4>>, <<"bronze", 1>> },
      enqueue  |-> {"gold", "bronze"} \X {1, 2},
      limit    |-> MaxCompeting,
      quota    |-> [ c \in {"gold", "bronze"} |-> MaxCompeting ],
      log      |-> TRUE ]

\* The scheduler under the competing workload, with the Go scheduler
\* running processLoop: a loop that can take one of its cases eventually
\* does.
CompeteFairSpec ==
    /\ SchedulerOf(Competing)
    /\ [][Next]_vars
    /\ WF_vars((Tick \/ Wake) /\ Whole)

\* The dispatches of class d among the events a+1..b.
DispatchesOf(d, a, b) ==
    { k \in (a + 1)..b : events[k].op = "dispatch" /\ events[k].queueID = d }

\* Class c is in the heap after event a and none of the events a+1..b
\* dispatches it: c waits with the same head request from a to b.
Waits(c, a, b) == c \in ActiveAfter(a) /\ DispatchesOf(c, a, b) = {}

\* While class c waits (from event a to now), the requests of another class
\* d dispatched after d's first cost together no more than c's head: their
\* sizes over d's weight add up to at most the head's size over c's weight,
\* however many Enqueue calls d receives.
BoundedBypass ==
    \A c \in Registered, d \in Registered, a \in 0..Len(events) :
        (/\ c # d
         /\ Waits(c, a, Len(events))
         /\ DispatchesOf(d, a, Len(events)) # {})
          => LET passed == DispatchesOf(d, a, Len(events))
                 first  == CHOOSE i \in passed : \A j \in passed : i <= j
             IN  (Service(d, a + 1, Len(events)) - events[first].size)
                        * queues[c].weight
                     <= queues[c].requests[1].size * queues[d].weight

\* C37: with positive sizes and weights and processLoop running, a class
\* that is active is dispatched (no class stays active for ever with the
\* number of its dispatches unchanged), and before that the other classes
\* are dispatched a bounded number of times: the bound depends on the
\* waiting head's size and the weights, not on the Enqueue calls the other
\* classes receive, whether they stay active or drain and become active
\* again.
C37_NoStarvation ==
    /\ [][BoundedBypass']_vars
    /\ \A c \in IDs(Competing.register), n \in 0..Competing.limit :
         []<>~(/\ c \in Registered
               /\ queues[c].active
               /\ queues[c].processed = n)

\* A class has been dispatched after waiting while another class was
\* dispatched, drained, was made active again by a new Enqueue and was
\* dispatched again.
C37_Witness ==
    \E c \in Registered, d \in Registered, a, b \in 0..Len(events) :
        /\ c # d
        /\ a < b
        /\ Waits(c, a, b)
        /\ b < Len(events)
        /\ events[b + 1].op = "dispatch"
        /\ events[b + 1].queueID = c
        /\ \E i, j, k \in (a + 1)..b :
             /\ i < j
             /\ j < k
             /\ events[i].op = "dispatch" /\ events[i].queueID = d
             /\ events[j].op = "enqueue" /\ events[j].queueID = d
             /\ d \notin events[j].active
             /\ events[k].op = "dispatch" /\ events[k].queueID = d

\* C38: Stop may be called again on a scheduler that is stopped already:
\* the call raises no panic, and the scheduler stays stopped.
C38_StopIdempotent ==
    /\ [](panic # "close of closed channel")
    /\ [][done => done']_vars

(***************************************************************************)
(* Package ratelimit's Middleware (the listing of README.md): a map from a  *)
(* request's key to a limiterEntry, under the RWMutex m.mu.  Each stretch   *)
(* of getLimiter between taking m.mu and releasing it is one step, and so   *)
(* is cleanupIdle; between two stretches of one getLimiter the other        *)
(* goroutines run.  A limiter is named by the number of the LimiterFactory  *)
(* call that made it.                                                       *)
(***************************************************************************)
\* Number of getLimiter calls one goroutine makes, and the last tick.
MaxGets == 2
MaxMwClock == 3

\* config.MaxIdleTime and config.CleanupInterval, in ticks.
MaxIdleTime == 1
CleanupInterval == 1

\* The goroutines of the HTTP server that run Handler, and the keys KeyFunc
\* gives their requests.
Handlers == { "handler1", "handler2" }
Keys == { "10.0.0.1", "10.0.0.2" }

\* NewMiddleware: the map is empty and the cleanup goroutine's ticker is
\* started.
NewMiddleware ==
    /\ mwClock = 0
    /\ mwLimiters = << >>
    /\ mwEntries = << >>
    /\ mwTicker = CleanupInterval
    /\ mwPc = [ g \in Handlers |-> Idle ]
    /\ mwHist = << >>

\* The Middleware's steps leave the scheduler and the limiters alone.
Apart == UNCHANGED << data, mu, pc, limiters, breaker >>

\* The getLimiter calls goroutine g has made.
Gets(g) ==
    Cardinality({ i \in DOMAIN mwHist :
                    mwHist[i].op = "call" /\ mwHist[i].by = g })

\* Handler: key := m.config.KeyFunc(r); limiter := m.getLimiter(key)
Handler(g, key) ==
    /\ mwPc[g] = Idle
    /\ Gets(g) < MaxGets
    /\ mwPc' = [mwPc EXCEPT ![g] = [ at |-> "RLock", key |-> key ]]
    /\ mwHist' = Append(mwHist, [ op |-> "call", by |-> g, key |-> key,
                                  limiter |-> 0 ])
    /\ UNCHANGED << mwClock, mwLimiters, mwEntries, mwTicker >>

\* m.mu.RLock(); entry, exists := m.limiters[key]; m.mu.RUnlock()
Lookup(g) ==
    /\ mwPc[g].at = "RLock"
    /\ mwPc' = [mwPc EXCEPT ![g] =
                  IF mwPc[g].key \in DOMAIN mwLimiters
                  THEN [ at |-> "exists", key |-> mwPc[g].key,
                         entry |-> mwLimiters[mwPc[g].key] ]
                  ELSE [ at |-> "Lock", key |-> mwPc[g].key ]]
    /\ UNCHANGED << mwClock, mwLimiters, mwEntries, mwTicker, mwHist >>

\* entry.lastAccess = time.Now()
Accessed(entries, e, now) == [entries EXCEPT ![e].lastAccess = now]

\* getLimiter returns limiter l to goroutine g.
Returned(g, l) ==
    [ op |-> "return", by |-> g, key |-> mwPc[g].key, limiter |-> l ]

\* if exists { m.mu.Lock(); entry.lastAccess = time.Now(); m.mu.Unlock();
\* return entry.limiter }: the entry is the one Lookup found, in the map or
\* not.
Touch(g) ==
    /\ mwPc[g].at = "exists"
    /\ mwEntries' = Accessed(mwEntries, mwPc[g].entry, mwClock)
    /\ mwHist' = Append(mwHist, Returned(g, mwEntries[mwPc[g].entry].limiter))
    /\ mwPc' = [mwPc EXCEPT ![g] = Idle]
    /\ UNCHANGED << mwClock, mwLimiters, mwTicker >>

\* Mutant: the limiter is made without looking at the map again.
DoubleCheckSkipped(key) == FALSE

\* if entry, exists := m.limiters[key]; exists
DoubleCheck(key) == key \in DOMAIN mwLimiters

\* m.mu.Lock(); defer m.mu.Unlock(); the second look at the map, and when
\* the key is still not there the call of LimiterFactory and the new entry.
Create(g) ==
    /\ mwPc[g].at = "Lock"
    /\ LET key == mwPc[g].key
       IN  IF DoubleCheck(key)
           THEN /\ mwEntries' = Accessed(mwEntries, mwLimiters[key], mwClock)
                /\ mwHist' = Append(mwHist,
                                Returned(g, mwEntries[mwLimiters[key]].limiter))
                /\ UNCHANGED mwLimiters
           ELSE LET made == Len(mwEntries) + 1
                IN  /\ mwEntries' = Append(mwEntries,
                                       [ limiter    |-> made,
                                         lastAccess |-> mwClock ])
                    /\ mwLimiters' =
                           [ k \in DOMAIN mwLimiters \cup {key} |->
                               IF k = key THEN made ELSE mwLimiters[k] ]
                    /\ mwHist' = mwHist \o
                           << [ op |-> "factory", by |-> g, key |-> key,
                                limiter |-> made ],
                              Returned(g, made) >>
    /\ mwPc' = [mwPc EXCEPT ![g] = Idle]
    /\ UNCHANGED << mwClock, mwTicker >>

\* now.Sub(entry.lastAccess) > m.config.MaxIdleTime
IsIdle(entry, now) == now - entry.lastAccess > MaxIdleTime

\* case <-ticker.C: m.cleanupIdle(), which deletes the idle entries from the
\* map under m.mu.
cleanupIdle ==
    /\ mwClock >= mwTicker
    /\ mwTicker' = mwClock + CleanupInterval
    /\ mwLimiters' = [ k \in { key \in DOMAIN mwLimiters :
                                 ~IsIdle(mwEntries[mwLimiters[key]], mwClock) }
                         |-> mwLimiters[k] ]
    /\ UNCHANGED << mwClock, mwEntries, mwPc, mwHist >>

\* Time passes.
MwTick ==
    /\ mwClock < MaxMwClock
    /\ mwClock' = mwClock + 1
    /\ UNCHANGED << mwLimiters, mwEntries, mwTicker, mwPc, mwHist >>

MiddlewareNext ==
    \/ \E g \in Handlers, key \in Keys : Handler(g, key) /\ Apart
    \/ \E g \in Handlers : Lookup(g) /\ Apart
    \/ \E g \in Handlers : Touch(g) /\ Apart
    \/ \E g \in Handlers : Create(g) /\ Apart
    \/ cleanupIdle /\ Apart
    \/ MwTick /\ Apart

\* A Middleware serving requests on two goroutines, with its cleanup
\* goroutine.
MiddlewareInit ==
    /\ InitOf([ register |-> {}, enqueue |-> {} ])
    /\ NoLimiters
    /\ NoBreaker
    /\ NewMiddleware

MiddlewareSpec == MiddlewareInit /\ [][MiddlewareNext]_vars

\* The returns of the getLimiter calls, each with the index of its call.
Obtained ==
    { r \in DOMAIN mwHist : mwHist[r].op = "return" }

\* The call that the return at index r ends: the last call of the same
\* goroutine before r.
CallOf(r) ==
    CHOOSE c \in 1..r :
        /\ mwHist[c].op = "call"
        /\ mwHist[c].by = mwHist[r].by
        /\ \A d \in (c + 1)..r :
               ~(mwHist[d].op = "call" /\ mwHist[d].by = mwHist[r].by)

\* Two getLimiter calls overlap: each began before the other returned.
Overlap(r1, r2) == CallOf(r1) < r2 /\ CallOf(r2) < r1

\* C35: LimiterFactory is called for a key only while the map has no entry
\* for that key, and two getLimiter calls for the same key that overlap
\* return the same limiter.
C35_OneLimiterPerKey ==
    /\ [][ \A k \in Keys :
             (/\ Len(mwHist') > Len(mwHist)
              /\ \E i \in (Len(mwHist) + 1)..Len(mwHist') :
                     mwHist'[i].op = "factory" /\ mwHist'[i].key = k)
                => k \notin DOMAIN mwLimiters ]_vars
    /\ [](\A r1, r2 \in Obtained :
            (mwHist[r1].key = mwHist[r2].key /\ Overlap(r1, r2))
               => mwHist[r1].limiter = mwHist[r2].limiter)

(***************************************************************************)
(* sample/circuit_breaker: CircuitBreakerRateLimiter.  RecordSuccess and   *)
(* RecordFailure hold cb.mu from their first to their last statement and   *)
(* are one step each.  Allow is a sequence of steps: the rate limiter, the *)
(* read of cb.state under RLock, for StateOpen the test of the timeout     *)
(* under Lock, and the two atomic operations of allowHalfOpen, which hold  *)
(* no lock.  The counters no decision reads (totalRequests,                *)
(* rejectedRequests, failures, lastFailTime) are left out.  One tick is    *)
(* the timeout, 10 s.                                                      *)
(***************************************************************************)
\* NewCircuitBreakerRateLimiter's settings.
failureThreshold == 5
successThreshold == 3
timeout == 1
maxHalfOpenRequests == 3

\* Number of Allow calls one goroutine makes, number of RecordSuccess and
\* RecordFailure calls in all, and the last tick.
MaxAllows == 3
MaxRecords == 8
MaxCbClock == 4

\* The goroutines that call Allow.
Clients == { "client1", "client2" }

\* NewCircuitBreakerRateLimiter(limiter)
NewCircuitBreakerRateLimiter ==
    /\ cbClock = 0
    /\ cb = [ state            |-> "CLOSED",
              successes        |-> 0,
              consecutiveFails |-> 0,
              halfOpenRequests |-> 0,
              lastTransition   |-> 0 ]
    /\ cbPc = [ g \in Clients |-> [ at |-> "idle", allows |-> 0 ] ]
    /\ cbTrace = [ period |-> 0, granted |-> 0, records |-> 0 ]

\* The breaker's steps leave the scheduler, the limiters and the Middleware
\* alone.
Alone == UNCHANGED << data, mu, pc, limiters, middleware >>

\* transitionTo(newState) at time now: the fields afterwards.
transitionTo(b, newState, now) ==
    IF b.state = newState
    THEN b
    ELSE LET moved == [b EXCEPT !.state = newState, !.lastTransition = now]
         IN  CASE newState = "CLOSED" ->
                      [moved EXCEPT !.successes = 0, !.consecutiveFails = 0]
               [] newState = "HALF-OPEN" ->
                      [moved EXCEPT !.halfOpenRequests = 0, !.successes = 0]
               [] OTHER -> moved

\* The history after the breaker's fields went from b to after.
TraceAfter(b, after) ==
    IF after.state = "HALF-OPEN" /\ b.state # "HALF-OPEN"
    THEN [cbTrace EXCEPT !.period = @ + 1, !.granted = 0]
    ELSE cbTrace

\* Goroutine g returns from Allow.
Finished(g) == [cbPc EXCEPT ![g] = [ at |-> "idle", allows |-> @.allows ]]

\* Allow is called: if !cb.limiter.Allow() { return false }, whatever the
\* rate limiter says.
AllowCall(g) ==
    /\ cbPc[g].at = "idle"
    /\ cbPc[g].allows < MaxAllows
    /\ \E ok \in BOOLEAN :
         cbPc' = [cbPc EXCEPT ![g] =
                    [ at     |-> IF ok THEN "RLock" ELSE "idle",
                      allows |-> @.allows + 1 ]]
    /\ UNCHANGED << cbClock, cb, cbTrace >>

\* cb.mu.RLock(); state := cb.state; cb.mu.RUnlock(); switch state: true for
\* StateClosed.
ReadState(g) ==
    /\ cbPc[g].at = "RLock"
    /\ cbPc' = [cbPc EXCEPT ![g].at =
                  CASE cb.state = "CLOSED" -> "idle"
                    [] cb.state = "OPEN" -> "Lock"
                    [] OTHER -> "Load"]
    /\ UNCHANGED << cbClock, cb, cbTrace >>

\* time.Since(cb.lastTransition) > cb.timeout
TimedOut(b, now) == now - b.lastTransition > timeout

\* case StateOpen: cb.mu.Lock(); if the timeout has passed,
\* cb.transitionTo(StateHalfOpen) and on to allowHalfOpen, else false.
OpenCase(g) ==
    /\ cbPc[g].at = "Lock"
    /\ IF TimedOut(cb, cbClock)
       THEN /\ cb' = transitionTo(cb, "HALF-OPEN", cbClock)
            /\ cbPc' = [cbPc EXCEPT ![g].at = "Load"]
       ELSE /\ cb' = cb
            /\ cbPc' = [cbPc EXCEPT ![g].at = "idle"]
    /\ cbTrace' = TraceAfter(cb, cb')
    /\ UNCHANGED cbClock

\* current := atomic.LoadInt64(&cb.halfOpenRequests); if current >=
\* cb.maxHalfOpenRequests { return false }
Load(g) ==
    /\ cbPc[g].at = "Load"
    /\ cbPc' = [cbPc EXCEPT ![g] =
                  IF cb.halfOpenRequests >= maxHalfOpenRequests
                  THEN [ at |-> "idle", allows |-> @.allows ]
                  ELSE [ at |-> "Add", allows |-> @.allows,
                         period |-> cbTrace.period,
                         state  |-> cb.state ]]
    /\ UNCHANGED << cbClock, cb, cbTrace >>

\* atomic.AddInt64(&cb.halfOpenRequests, 1); return true.  The history
\* counts the call when the breaker was and is in StateHalfOpen, in the
\* same period as at the load.
AddGrant(g) ==
    /\ cbPc[g].at = "Add"
    /\ cb' = [cb EXCEPT !.halfOpenRequests = @ + 1]
    /\ cbTrace' = IF /\ cb.state = "HALF-OPEN"
                     /\ cbPc[g].state = "HALF-OPEN"
                     /\ cbPc[g].period = cbTrace.period
                  THEN [cbTrace EXCEPT !.granted = @ + 1]
                  ELSE cbTrace
    /\ cbPc' = Finished(g)
    /\ UNCHANGED cbClock

\* RecordSuccess()
RecordSuccess ==
    /\ cbTrace.records < MaxRecords
    /\ LET counted == [cb EXCEPT !.consecutiveFails = 0,
                                 !.successes = @ + 1]
       IN  cb' = IF /\ counted.state = "HALF-OPEN"
                    /\ counted.successes >= successThreshold
                 THEN transitionTo(counted, "CLOSED", cbClock)
                 ELSE counted
    /\ cbTrace' = [TraceAfter(cb, cb') EXCEPT !.records = @ + 1]
    /\ UNCHANGED << cbClock, cbPc >>

\* RecordFailure()
RecordFailure ==
    /\ cbTrace.records < MaxRecords
    /\ LET counted == [cb EXCEPT !.consecutiveFails = @ + 1]
       IN  cb' = CASE counted.state = "CLOSED"
                        /\ counted.consecutiveFails >= failureThreshold ->
                            transitionTo(counted, "OPEN", cbClock)
                   [] counted.state = "HALF-OPEN" ->
                            transitionTo(counted, "OPEN", cbClock)
                   [] OTHER -> counted
    /\ cbTrace' = [TraceAfter(cb, cb') EXCEPT !.records = @ + 1]
    /\ UNCHANGED << cbClock, cbPc >>

\* Time passes.
CbTick ==
    /\ cbClock < MaxCbClock
    /\ cbClock' = cbClock + 1
    /\ UNCHANGED << cb, cbPc, cbTrace >>

BreakerNext ==
    \/ \E g \in Clients : AllowCall(g) /\ Alone
    \/ \E g \in Clients : ReadState(g) /\ Alone
    \/ \E g \in Clients : OpenCase(g) /\ Alone
    \/ \E g \in Clients : Load(g) /\ Alone
    \/ \E g \in Clients : AddGrant(g) /\ Alone
    \/ RecordSuccess /\ Alone
    \/ RecordFailure /\ Alone
    \/ CbTick /\ Alone

\* A circuit breaker with two goroutines calling Allow and the outcomes of
\* the requests being recorded.
BreakerInit ==
    /\ InitOf([ register |-> {}, enqueue |-> {} ])
    /\ NoLimiters
    /\ NoMiddleware
    /\ NewCircuitBreakerRateLimiter

BreakerSpec == BreakerInit /\ [][BreakerNext]_vars

\* C39: the breaker's state changes only from CLOSED to OPEN in a
\* RecordFailure that brings the consecutive failures to failureThreshold or
\* more, from OPEN to HALF-OPEN in an Allow more than timeout after the last
\* transition, from HALF-OPEN to CLOSED in a RecordSuccess that brings the
\* successes to successThreshold or more, and from HALF-OPEN to OPEN in a
\* RecordFailure.
C39_TransitionsOfTheBreaker ==
    [][ cb'.state # cb.state =>
          \/ /\ cb.state = "CLOSED" /\ cb'.state = "OPEN"
             /\ RecordFailure
             /\ cb.consecutiveFails + 1 >= failureThreshold
          \/ /\ cb.state = "OPEN" /\ cb'.state = "HALF-OPEN"
             /\ \E g \in Clients : OpenCase(g)
             /\ cbClock - cb.lastTransition > timeout
          \/ /\ cb.state = "HALF-OPEN" /\ cb'.state = "CLOSED"
             /\ RecordSuccess
             /\ cb.successes + 1 >= successThreshold
          \/ /\ cb.state = "HALF-OPEN" /\ cb'.state = "OPEN"
             /\ RecordFailure ]_vars

\* C40: while the breaker is in StateHalfOpen, the Allow calls that
\* allowHalfOpen let through since the breaker came into that state are at
\* most maxHalfOpenRequests.
C40_HalfOpenBudget ==
    [](cb.state = "HALF-OPEN" => cbTrace.granted <= maxHalfOpenRequests)

=============================================================================
